---- MODULE Spec2Model ----
(***************************************************************************)
(* Model of the classification / matching-cache / manual-reassignment core *)
(* of tf4m_bulk_upload: core/models.py, core/file_analyzer.py,             *)
(* core/match_cache.py, core/project_manager.py and the upload file        *)
(* gathering of core/api_client.py.                                        *)
(*                                                                         *)
(* One patient folder is modelled.  A file is identified by its path; the  *)
(* paths are the indices of FileTable, numbered in the order in which the  *)
(* directory listing yields them (the STL files without keyword in         *)
(* alphabetical order).  FileData objects are shared by reference, and     *)
(* every lookup is by path, so the slots hold paths and fd maps each path  *)
(* to the fields of its single FileData object.                            *)
(***************************************************************************)
EXTENDS Integers, Sequences, FiniteSets, TLC

(***************************************************************************)
(* core/models.py                                                          *)
(***************************************************************************)
CBCT_DICOM == "cbct_dicom"
IOS_UPPER == "ios_upper"
IOS_LOWER == "ios_lower"
INTRAORAL_PHOTO == "intraoral_photo"
TELERADIOGRAPHY == "teleradiography"
ORTHOPANTOMOGRAPHY == "orthopantomography"
EXCLUDE == "exclude"
DataType == {CBCT_DICOM, IOS_UPPER, IOS_LOWER, INTRAORAL_PHOTO,
             TELERADIOGRAPHY, ORTHOPANTOMOGRAPHY, EXCLUDE}
\* Optional[DataType] = None
NoType == "None"

MATCHED == "matched"
UNMATCHED == "unmatched"
MISSING == "missing"
AMBIGUOUS == "ambiguous"
MANUAL == "manual"
MatchStatus == {MATCHED, UNMATCHED, MISSING, AMBIGUOUS, MANUAL}

\* Optional[FileData] = None in a singleton slot (paths are 1..NFiles)
NoFile == 0

\* FileData(path, data_type, confidence, status); confidence in tenths
FileData(t, c, s) == [data_type |-> t, confidence |-> c, status |-> s]
\* the dataclass defaults of FileData
DefaultFileData == FileData(NoType, 0, UNMATCHED)

(***************************************************************************)
(* The files a patient folder can hold.  loc is the place of the file:     *)
(* the patient folder itself ("main"), the discovered CBCT subfolder or    *)
(* the discovered IOS subfolder.  The keyword fields are the results of    *)
(* _matches_patterns on the lower-cased file name, dicom the result of     *)
(* _is_dicom_file, pixel the result of _analyze_image_properties.         *)
(***************************************************************************)
FileTable == <<
  [name |-> "ceph_tele_a.jpg", loc |-> "main", ext |-> ".jpg", tele |-> TRUE,
   ortho |-> FALSE, upper |-> FALSE, lower |-> FALSE, dicom |-> FALSE,
   pixel |-> NoType],
  [name |-> "ceph_tele_b.jpg", loc |-> "main", ext |-> ".jpg", tele |-> TRUE,
   ortho |-> FALSE, upper |-> FALSE, lower |-> FALSE, dicom |-> FALSE,
   pixel |-> NoType],
  [name |-> "img_001.jpg", loc |-> "main", ext |-> ".jpg", tele |-> FALSE,
   ortho |-> FALSE, upper |-> FALSE, lower |-> FALSE, dicom |-> FALSE,
   pixel |-> INTRAORAL_PHOTO],
  [name |-> "notes.pdf", loc |-> "main", ext |-> ".pdf", tele |-> FALSE,
   ortho |-> FALSE, upper |-> FALSE, lower |-> FALSE, dicom |-> FALSE,
   pixel |-> NoType],
  [name |-> "panoramic.png", loc |-> "main", ext |-> ".png", tele |-> FALSE,
   ortho |-> TRUE, upper |-> FALSE, lower |-> FALSE, dicom |-> FALSE,
   pixel |-> NoType],
  [name |-> "cbct/slice1.dcm", loc |-> "cbct", ext |-> ".dcm", tele |-> FALSE,
   ortho |-> FALSE, upper |-> FALSE, lower |-> FALSE, dicom |-> TRUE,
   pixel |-> NoType],
  [name |-> "cbct/volume.txt", loc |-> "cbct", ext |-> ".txt", tele |-> FALSE,
   ortho |-> FALSE, upper |-> FALSE, lower |-> FALSE, dicom |-> FALSE,
   pixel |-> NoType],
  [name |-> "scan/model_a.stl", loc |-> "ios", ext |-> ".stl", tele |-> FALSE,
   ortho |-> FALSE, upper |-> FALSE, lower |-> FALSE, dicom |-> FALSE,
   pixel |-> NoType],
  [name |-> "scan/model_b.stl", loc |-> "ios", ext |-> ".stl", tele |-> FALSE,
   ortho |-> FALSE, upper |-> FALSE, lower |-> FALSE, dicom |-> FALSE,
   pixel |-> NoType],
  [name |-> "scan/upper.stl", loc |-> "ios", ext |-> ".stl", tele |-> FALSE,
   ortho |-> FALSE, upper |-> TRUE, lower |-> FALSE, dicom |-> FALSE,
   pixel |-> NoType],
  [name |-> "scan/upper_v2.stl", loc |-> "ios", ext |-> ".stl", tele |-> FALSE,
   ortho |-> FALSE, upper |-> TRUE, lower |-> FALSE, dicom |-> FALSE,
   pixel |-> NoType],
  [name |-> "scan/lower.stl", loc |-> "ios", ext |-> ".stl", tele |-> FALSE,
   ortho |-> FALSE, upper |-> FALSE, lower |-> TRUE, dicom |-> FALSE,
   pixel |-> NoType],
  [name |-> "scan/report.pdf", loc |-> "ios", ext |-> ".pdf", tele |-> FALSE,
   ortho |-> FALSE, upper |-> FALSE, lower |-> FALSE, dicom |-> FALSE,
   pixel |-> NoType],
  [name |-> "Thumbs.db", loc |-> "main", ext |-> ".db", tele |-> FALSE,
   ortho |-> FALSE, upper |-> FALSE, lower |-> FALSE, dicom |-> FALSE,
   pixel |-> NoType],
  [name |-> "panoramic_old.png", loc |-> "main", ext |-> ".png",
   tele |-> FALSE,
   ortho |-> TRUE, upper |-> FALSE, lower |-> FALSE, dicom |-> FALSE,
   pixel |-> NoType],
  [name |-> "scan/model_c.stl", loc |-> "ios", ext |-> ".stl", tele |-> FALSE,
   ortho |-> FALSE, upper |-> FALSE, lower |-> FALSE, dicom |-> FALSE,
   pixel |-> NoType],
  [name |-> "cbct/.slice2.dcm", loc |-> "cbct", ext |-> ".dcm",
   tele |-> FALSE,
   ortho |-> FALSE, upper |-> FALSE, lower |-> FALSE, dicom |-> TRUE,
   pixel |-> NoType],
  [name |-> "scan/._upper.stl", loc |-> "ios", ext |-> ".stl",
   tele |-> FALSE,
   ortho |-> FALSE, upper |-> TRUE, lower |-> FALSE, dicom |-> FALSE,
   pixel |-> NoType]
>>

\* os.path.basename of each path: whether it starts with '.', and its
\* lower-cased form
Basenames == <<
  [dot |-> FALSE, lower |-> "ceph_tele_a.jpg"],
  [dot |-> FALSE, lower |-> "ceph_tele_b.jpg"],
  [dot |-> FALSE, lower |-> "img_001.jpg"],
  [dot |-> FALSE, lower |-> "notes.pdf"],
  [dot |-> FALSE, lower |-> "panoramic.png"],
  [dot |-> FALSE, lower |-> "slice1.dcm"],
  [dot |-> FALSE, lower |-> "volume.txt"],
  [dot |-> FALSE, lower |-> "model_a.stl"],
  [dot |-> FALSE, lower |-> "model_b.stl"],
  [dot |-> FALSE, lower |-> "upper.stl"],
  [dot |-> FALSE, lower |-> "upper_v2.stl"],
  [dot |-> FALSE, lower |-> "lower.stl"],
  [dot |-> FALSE, lower |-> "report.pdf"],
  [dot |-> FALSE, lower |-> "thumbs.db"],
  [dot |-> FALSE, lower |-> "panoramic_old.png"],
  [dot |-> FALSE, lower |-> "model_c.stl"],
  [dot |-> TRUE, lower |-> ".slice2.dcm"],
  [dot |-> TRUE, lower |-> "._upper.stl"]
>>

NFiles == Len(FileTable)
Paths == 1..NFiles

\* The folder contents the model starts from.
Folders == {
  {1, 2, 5},        \* two teleradiography candidates and a panoramic image
  {3, 4},           \* a photo and a non-image file
  {6, 7},           \* CBCT folder with a DICOM and a non-DICOM file
  {8},              \* a single STL file without keyword
  {8, 9, 14},       \* two STL files without keyword, a system file
  {10, 11, 12}      \* STL files with keywords, two of them upper
}

(***************************************************************************)
(* Sequence helpers                                                        *)
(***************************************************************************)
Range(s) == {s[i] : i \in 1..Len(s)}

RECURSIVE SortedSeq(_)
\* the elements of a set of paths in walk order
SortedSeq(S) ==
  IF S = {} THEN <<>>
  ELSE LET m == CHOOSE x \in S : \A y \in S : x <= y
       IN <<m>> \o SortedSeq(S \ {m})

\* list.remove(x): drops the first occurrence
RemoveFirst(s, x) ==
  IF x \notin Range(s) THEN s
  ELSE LET i == CHOOSE k \in 1..Len(s) :
                   s[k] = x /\ \A j \in 1..(k - 1) : s[j] # x
       IN SubSeq(s, 1, i - 1) \o SubSeq(s, i + 1, Len(s))

(***************************************************************************)
(* PatientData (core/models.py)                                            *)
(***************************************************************************)
EmptyPatient ==
  [cbct_folder |-> FALSE, ios_folder |-> FALSE,
   cbct_files |-> <<>>, ios_upper |-> NoFile, ios_lower |-> NoFile,
   intraoral_photos |-> <<>>, teleradiography |-> NoFile,
   orthopantomography |-> NoFile, unmatched_files |-> <<>>,
   validation_errors |-> <<>>, manually_complete |-> FALSE,
   nifti_conversion_status |-> "pending", zip_package |-> FALSE]

Opt(x) == IF x = NoFile THEN <<>> ELSE <<x>>

\* PatientData.get_all_files
get_all_files(pd) ==
  pd.cbct_files \o Opt(pd.ios_upper) \o Opt(pd.ios_lower)
    \o pd.intraoral_photos \o Opt(pd.teleradiography)
    \o Opt(pd.orthopantomography) \o pd.unmatched_files

\* PatientData.get_missing_data_types
get_missing_data_types(pd) ==
  (IF pd.cbct_files = <<>> THEN {CBCT_DICOM} ELSE {})
  \cup (IF pd.ios_upper = NoFile THEN {IOS_UPPER} ELSE {})
  \cup (IF pd.ios_lower = NoFile THEN {IOS_LOWER} ELSE {})
  \cup (IF pd.teleradiography = NoFile THEN {TELERADIOGRAPHY} ELSE {})
  \cup (IF pd.orthopantomography = NoFile THEN {ORTHOPANTOMOGRAPHY} ELSE {})

(***************************************************************************)
(* Classifier (core/file_analyzer.py)                                      *)
(***************************************************************************)
\* FileAnalyzer._should_ignore_file
_should_ignore_file(f) ==
  \/ Basenames[f].dot
  \/ Basenames[f].lower \in {"thumbs.db", "desktop.ini", "icon\r"}

\* FileAnalyzer._is_dicom_file
_is_dicom_file(f) == FileTable[f].ext \in {".dcm", ".dicom"} \/ FileTable[f].dicom

\* the files of the folder that lie in one place, in walk order
FilesAt(dir, l) == SortedSeq({f \in dir : FileTable[f].loc = l})

\* FileAnalyzer._find_special_folders: the subfolder exists when it holds a file
_find_special_folders(dir) ==
  [cbct_folder |-> FilesAt(dir, "cbct") # <<>>,
   ios_folder |-> FilesAt(dir, "ios") # <<>>]

IsCbctCandidate(f) == ~_should_ignore_file(f) /\ _is_dicom_file(f)

\* FileAnalyzer._analyze_cbct_folder: the paths classified CBCT_DICOM
_analyze_cbct_folder(dir) == SelectSeq(FilesAt(dir, "cbct"), IsCbctCandidate)

\* every STL file of the IOS folder is a candidate
IsStlCandidateAny(f) == FileTable[f].ext = ".stl"

IsStlCandidate(f) == ~_should_ignore_file(f) /\ FileTable[f].ext = ".stl"

\* the alphabetical fallback is tried whatever the number of STL files
FallbackAnyCount(n, upper_file, lower_file) ==
  upper_file = NoFile /\ lower_file = NoFile

\* len(stl_files) == 2 and upper_file is None and lower_file is None
FallbackApplies(n, upper_file, lower_file) ==
  n = 2 /\ upper_file = NoFile /\ lower_file = NoFile

RECURSIVE IosLoop(_, _)
\* the for loop of _analyze_ios_folder over two or more STL files;
\* acc = [upper_file, lower_file, unmatched_files]
IosLoop(files, acc) ==
  IF files = <<>> THEN acc
  ELSE LET f == Head(files)
           next ==
             IF FileTable[f].upper
             THEN IF acc.upper_file = NoFile
                  THEN [acc EXCEPT !.upper_file = f]
                  ELSE [acc EXCEPT !.unmatched_files = Append(@, f)]
             ELSE IF FileTable[f].lower
             THEN IF acc.lower_file = NoFile
                  THEN [acc EXCEPT !.lower_file = f]
                  ELSE [acc EXCEPT !.unmatched_files = Append(@, f)]
             ELSE [acc EXCEPT !.unmatched_files = Append(@, f)]
       IN IosLoop(Tail(files), next)

\* FileAnalyzer._analyze_ios_folder: (ios_upper, ios_lower) with the fields of
\* the FileData objects it creates; the local unmatched_files list is not returned
_analyze_ios_folder(dir) ==
  LET none == [upper |-> NoFile, upperData |-> DefaultFileData,
               lower |-> NoFile, lowerData |-> DefaultFileData]
      \* exactly one STL file
      Single(f) ==
        IF FileTable[f].upper
        THEN [none EXCEPT !.upper = f,
                          !.upperData = FileData(IOS_UPPER, 7, MATCHED)]
        ELSE IF FileTable[f].lower
        THEN [none EXCEPT !.lower = f,
                          !.lowerData = FileData(IOS_LOWER, 7, MATCHED)]
        ELSE [none EXCEPT !.upper = f,
                          !.upperData = FileData(NoType, 0, AMBIGUOUS)]
      \* two files without keyword: alphabetical order
      ByOrder(sorted_files) ==
        [upper |-> sorted_files[1],
         upperData |-> FileData(IOS_UPPER, 3, MATCHED),
         lower |-> sorted_files[2],
         lowerData |-> FileData(IOS_LOWER, 3, MATCHED)]
      \* two or more STL files, r being the result of the loop
      Several(stl_files, r) ==
        IF FallbackApplies(Len(stl_files), r.upper_file, r.lower_file)
        THEN ByOrder(SortedSeq(Range(stl_files)))
        ELSE [upper |-> r.upper_file,
              upperData |-> IF r.upper_file = NoFile THEN DefaultFileData
                            ELSE FileData(IOS_UPPER, 8, MATCHED),
              lower |-> r.lower_file,
              lowerData |-> IF r.lower_file = NoFile THEN DefaultFileData
                            ELSE FileData(IOS_LOWER, 8, MATCHED)]
      Classify(stl_files) ==
        IF Len(stl_files) = 0 THEN none
        ELSE IF Len(stl_files) = 1 THEN Single(stl_files[1])
        ELSE Several(stl_files,
                     IosLoop(stl_files, [upper_file |-> NoFile,
                                         lower_file |-> NoFile,
                                         unmatched_files |-> <<>>]))
  IN Classify(SelectSeq(FilesAt(dir, "ios"), IsStlCandidate))

IsImageExt(e) == e \in {".jpg", ".jpeg", ".png", ".bmp", ".tiff", ".tif"}

\* FileAnalyzer._analyze_single_file
_analyze_single_file(f) ==
  IF IsImageExt(FileTable[f].ext)
  THEN IF FileTable[f].tele THEN FileData(TELERADIOGRAPHY, 7, MATCHED)
       ELSE IF FileTable[f].ortho THEN FileData(ORTHOPANTOMOGRAPHY, 7, MATCHED)
       ELSE LET image_type == FileTable[f].pixel
            IN IF image_type # NoType
               THEN FileData(image_type,
                             IF image_type \in {TELERADIOGRAPHY, ORTHOPANTOMOGRAPHY}
                             THEN 6 ELSE 8,
                             MATCHED)
               ELSE FileData(INTRAORAL_PHOTO, 5, MATCHED)
  ELSE FileData(NoType, 0, UNMATCHED)

IsMainCandidate(f) == ~_should_ignore_file(f)

\* FileAnalyzer._get_files_in_folder with exclude_folders=[cbct_folder, ios_folder]
_get_files_in_folder(dir) == SelectSeq(FilesAt(dir, "main"), IsMainCandidate)

\* a singleton slot takes every candidate
SlotAlwaysFree(slot) == TRUE

\* patient_data.teleradiography is None, patient_data.orthopantomography is None
SlotIsFree(slot) == slot = NoFile

RECURSIVE _categorize_main_folder_files(_, _)
\* FileAnalyzer._categorize_main_folder_files; st = [p, fd]
_categorize_main_folder_files(files, st) ==
  IF files = <<>> THEN st
  ELSE LET \* the body of the loop for file f analysed as file_data
           Place(f, file_data) ==
             IF file_data.data_type = TELERADIOGRAPHY
             THEN IF SlotIsFree(st.p.teleradiography)
                  THEN [p |-> [st.p EXCEPT !.teleradiography = f],
                        fd |-> [st.fd EXCEPT ![f] = file_data]]
                  ELSE [p |-> [st.p EXCEPT !.unmatched_files = Append(@, f)],
                        fd |-> [st.fd EXCEPT ![f] =
                                  [file_data EXCEPT !.status = AMBIGUOUS]]]
             ELSE IF file_data.data_type = ORTHOPANTOMOGRAPHY
             THEN IF SlotIsFree(st.p.orthopantomography)
                  THEN [p |-> [st.p EXCEPT !.orthopantomography = f],
                        fd |-> [st.fd EXCEPT ![f] = file_data]]
                  ELSE [p |-> [st.p EXCEPT !.unmatched_files = Append(@, f)],
                        fd |-> [st.fd EXCEPT ![f] =
                                  [file_data EXCEPT !.status = AMBIGUOUS]]]
             ELSE IF file_data.data_type = INTRAORAL_PHOTO
             THEN [p |-> [st.p EXCEPT !.intraoral_photos = Append(@, f)],
                   fd |-> [st.fd EXCEPT ![f] = file_data]]
             ELSE [p |-> [st.p EXCEPT !.unmatched_files = Append(@, f)],
                   fd |-> [st.fd EXCEPT ![f] = file_data]]
       IN _categorize_main_folder_files(
            Tail(files), Place(Head(files), _analyze_single_file(Head(files))))

\* FileAnalyzer._run_post_processing: the automatic CBCT to NIfTI conversion
\* succeeds when the external converter is available; the zip package of the
\* folder is written below the project root
_run_post_processing(pd, converter_ok) ==
  LET converted ==
        IF pd.cbct_files # <<>> /\ pd.cbct_folder
        THEN [pd EXCEPT !.nifti_conversion_status =
                          IF converter_ok THEN "completed" ELSE "failed"]
        ELSE pd
  IN [converted EXCEPT !.zip_package = TRUE]

\* the files of the folder outside the subfolders that cannot be read
\* (PermissionError in os.listdir, skipped by os.walk)
Readable(dir, denied) == {f \in dir : FileTable[f].loc \notin denied}

\* FileAnalyzer.analyze_patient_folder(folder_path, use_cache=False) on an
\* existing folder: the fresh analysis, as [p, fd]; denied are the subfolders
\* that cannot be read
FreshAnalysis(dir, converter_ok, denied) ==
  LET \* the aggregate after the two special folders were analysed
      Start(special, cbct, ios) ==
        [p |-> [EmptyPatient EXCEPT !.cbct_folder = special.cbct_folder,
                                    !.ios_folder = special.ios_folder,
                                    !.cbct_files = cbct,
                                    !.ios_upper = ios.upper,
                                    !.ios_lower = ios.lower],
         fd |-> [f \in Paths |->
                   IF f \in Range(cbct) THEN FileData(CBCT_DICOM, 9, MATCHED)
                   ELSE IF f = ios.upper THEN ios.upperData
                   ELSE IF f = ios.lower THEN ios.lowerData
                   ELSE DefaultFileData]]
      Finish(st) == [p |-> _run_post_processing(st.p, converter_ok),
                     fd |-> st.fd]
      Analyze(special) ==
        Finish(_categorize_main_folder_files(
                 _get_files_in_folder(dir),
                 Start(special,
                       IF special.cbct_folder
                       THEN _analyze_cbct_folder(Readable(dir, denied))
                       ELSE <<>>,
                       IF special.ios_folder
                       THEN _analyze_ios_folder(Readable(dir, denied))
                       ELSE [upper |-> NoFile, upperData |-> DefaultFileData,
                             lower |-> NoFile, lowerData |-> DefaultFileData])))
  IN Analyze(_find_special_folders(dir))

\* the validation error of a folder that does not exist
FolderDoesNotExist == "Folder does not exist"

\* the folder is classified without the test of its existence
analyze_patient_folderNoTest(exists, dir, converter_ok, denied) ==
  FreshAnalysis(dir, converter_ok, denied)

\* FileAnalyzer.analyze_patient_folder(folder_path, use_cache=False)
analyze_patient_folder(exists, dir, converter_ok, denied) ==
  IF ~exists
  THEN [p |-> [EmptyPatient EXCEPT
                 !.validation_errors = Append(@, FolderDoesNotExist)],
        fd |-> [f \in Paths |-> DefaultFileData]]
  ELSE FreshAnalysis(dir, converter_ok, denied)

(***************************************************************************)
(* Manual reassignment (core/project_manager.py)                           *)
(***************************************************************************)
ClearIf(slot, f) == IF slot = f THEN NoFile ELSE slot

\* ProjectManager._remove_file_from_patient
_remove_file_from_patient(pd, f) ==
  [pd EXCEPT !.unmatched_files = RemoveFirst(@, f),
             !.cbct_files = RemoveFirst(@, f),
             !.intraoral_photos = RemoveFirst(@, f),
             !.ios_upper = ClearIf(@, f),
             !.ios_lower = ClearIf(@, f),
             !.teleradiography = ClearIf(@, f),
             !.orthopantomography = ClearIf(@, f)]

\* the occupant of a singleton slot is overwritten
DisplacedDropped(pd, slot) == pd.unmatched_files

\* the occupant of a singleton slot is appended to unmatched_files
Displaced(pd, slot) ==
  IF slot # NoFile THEN Append(pd.unmatched_files, slot)
  ELSE pd.unmatched_files

\* ProjectManager._add_file_to_patient, file f having data type t
_add_file_to_patient(pd, f, t) ==
  IF t = EXCLUDE
  THEN IF FileTable[f].ext \in {".dcm", ".dicom"}
       THEN [pd EXCEPT !.cbct_files = Append(@, f)]
       ELSE IF FileTable[f].ext = ".stl"
       THEN [pd EXCEPT !.unmatched_files = Append(@, f)]
       ELSE IF FileTable[f].ext \in {".jpg", ".jpeg", ".png", ".bmp"}
       THEN [pd EXCEPT !.intraoral_photos = Append(@, f)]
       ELSE [pd EXCEPT !.unmatched_files = Append(@, f)]
  ELSE IF t = CBCT_DICOM
  THEN [pd EXCEPT !.cbct_files = Append(@, f)]
  ELSE IF t = IOS_UPPER
  THEN [pd EXCEPT !.unmatched_files = Displaced(pd, pd.ios_upper),
                  !.ios_upper = f]
  ELSE IF t = IOS_LOWER
  THEN [pd EXCEPT !.unmatched_files = Displaced(pd, pd.ios_lower),
                  !.ios_lower = f]
  ELSE IF t = INTRAORAL_PHOTO
  THEN [pd EXCEPT !.intraoral_photos = Append(@, f)]
  ELSE IF t = TELERADIOGRAPHY
  THEN [pd EXCEPT !.unmatched_files = Displaced(pd, pd.teleradiography),
                  !.teleradiography = f]
  ELSE IF t = ORTHOPANTOMOGRAPHY
  THEN [pd EXCEPT !.unmatched_files = Displaced(pd, pd.orthopantomography),
                  !.orthopantomography = f]
  ELSE [pd EXCEPT !.unmatched_files = Append(@, f)]

\* the file is reassigned although it is no longer on disk
update_patient_file_assignmentNoStat(has_project, dir, pd, fdd, f, t) ==
  IF ~has_project THEN [ok |-> FALSE, p |-> pd, fd |-> fdd]
  ELSE IF f \notin Range(get_all_files(pd))
  THEN [ok |-> FALSE, p |-> pd, fd |-> fdd]
  ELSE [ok |-> TRUE,
        p |-> _add_file_to_patient(_remove_file_from_patient(pd, f), f, t),
        fd |-> [fdd EXCEPT ![f] = FileData(t, 10, MANUAL)]]

\* ProjectManager.update_patient_file_assignment on the aggregate (pd, fdd):
\* the result and the aggregate afterwards
update_patient_file_assignment(has_project, dir, pd, fdd, f, t) ==
  IF ~has_project THEN [ok |-> FALSE, p |-> pd, fd |-> fdd]
  ELSE IF f \notin dir THEN [ok |-> FALSE, p |-> pd, fd |-> fdd]
  ELSE IF f \notin Range(get_all_files(pd))
  THEN [ok |-> FALSE, p |-> pd, fd |-> fdd]
  ELSE [ok |-> TRUE,
        p |-> _add_file_to_patient(_remove_file_from_patient(pd, f), f, t),
        fd |-> [fdd EXCEPT ![f] = FileData(t, 10, MANUAL)]]

\* the patient_id of the one aggregate in project_data.patients, and the ids
\* a caller may pass
PatientId == "P1"
PatientIds == {"P1", "P2"}

\* ProjectManager.update_patient_file_assignment for any patient id: the
\* patient is looked up in project_data.patients
update_assignment_of(patient_id, has_project, dir, pd, fdd, f, t) ==
  IF has_project /\ f \in dir /\ patient_id # PatientId
  THEN [ok |-> FALSE, p |-> pd, fd |-> fdd]
  ELSE update_patient_file_assignment(has_project, dir, pd, fdd, f, t)

(***************************************************************************)
(* Matching cache (core/match_cache.py)                                    *)
(***************************************************************************)
\* max_age_days of CacheEntry.is_valid; time is counted in days
MaxAgeDays == 30

\* MatchCache.get_folder_hash: the digest is modelled by its input, the
\* modification time of the folder and the files below it (the sidecar
\* .tf4m_cache.json is skipped)
get_folder_hash(dir, mtime) == [mtime |-> mtime, files |-> dir]

\* an entry that is exactly max_age_days old still counts as valid
is_validInclusive(entry, current_hash, t) ==
  IF entry.folder_hash # current_hash THEN FALSE
  ELSE (t - entry.timestamp) <= MaxAgeDays

\* CacheEntry.is_valid
is_valid(entry, current_hash, t) ==
  IF entry.folder_hash # current_hash THEN FALSE
  ELSE (t - entry.timestamp) < MaxAgeDays

RECURSIVE Dedup(_, _)
\* insertion order of the keys of a dict filled from a list
Dedup(s, seen) ==
  IF s = <<>> THEN <<>>
  ELSE IF Head(s) \in seen THEN Dedup(Tail(s), seen)
  ELSE <<Head(s)>> \o Dedup(Tail(s), seen \cup {Head(s)})

\* MatchCache.cache_matches: the CacheEntry built from the aggregate
cache_matches(pd, fdd, folder_hash, t) ==
  LET IsMatched(f) == fdd[f].status \in {MATCHED, MANUAL}
                      /\ fdd[f].data_type # NoType
      Entry(all_files, keys) ==
        [folder_hash |-> folder_hash,
         timestamp |-> t,
         file_count |-> Len(all_files),
         matched_files |-> [i \in 1..Len(keys) |->
                              [path |-> keys[i],
                               data_type |-> fdd[keys[i]].data_type,
                               confidence |-> fdd[keys[i]].confidence,
                               status |-> fdd[keys[i]].status]],
         unmatched_files |-> pd.unmatched_files,
         manually_complete |-> pd.manually_complete,
         upload_status |-> "not_uploaded",
         remote_patient_id |-> "None",
         last_upload_attempt |-> "None",
         upload_error_message |-> "",
         uploaded_file_hashes |-> {}]
      Build(all_files) ==
        Entry(all_files, Dedup(SelectSeq(all_files, IsMatched), {}))
  IN Build(get_all_files(pd))

\* MatchCache._assign_file_to_patient_structure, file f having data type t
_assign_file_to_patient_structure(pd, f, t) ==
  IF t = CBCT_DICOM THEN [pd EXCEPT !.cbct_files = Append(@, f)]
  ELSE IF t = IOS_UPPER THEN [pd EXCEPT !.ios_upper = f]
  ELSE IF t = IOS_LOWER THEN [pd EXCEPT !.ios_lower = f]
  ELSE IF t = INTRAORAL_PHOTO THEN [pd EXCEPT !.intraoral_photos = Append(@, f)]
  ELSE IF t = TELERADIOGRAPHY THEN [pd EXCEPT !.teleradiography = f]
  ELSE IF t = ORTHOPANTOMOGRAPHY THEN [pd EXCEPT !.orthopantomography = f]
  ELSE [pd EXCEPT !.unmatched_files = Append(@, f)]

RECURSIVE ApplyMatched(_, _, _)
\* first loop of _apply_cached_matches, over entry.matched_files; a value that
\* is no DataType or no MatchStatus raises ValueError and the file is appended
\* to unmatched_files with the fields assigned so far
ApplyMatched(matched, file_lookup, st) ==
  IF matched = <<>> THEN st
  ELSE LET m == Head(matched)
           f == m.path
           next ==
             IF f \notin file_lookup THEN st
             ELSE IF m.data_type \notin DataType
             THEN [st EXCEPT !.p.unmatched_files = Append(@, f)]
             ELSE IF m.status \notin MatchStatus
             THEN [p |-> [st.p EXCEPT !.unmatched_files = Append(@, f)],
                   fd |-> [st.fd EXCEPT ![f].data_type = m.data_type,
                                        ![f].confidence = m.confidence]]
             ELSE [p |-> _assign_file_to_patient_structure(st.p, f, m.data_type),
                   fd |-> [st.fd EXCEPT ![f] = FileData(m.data_type,
                                                        m.confidence, m.status)]]
       IN ApplyMatched(Tail(matched), file_lookup, next)

RECURSIVE ApplyUnmatched(_, _, _)
\* second loop of _apply_cached_matches, over entry.unmatched_files; the third
\* loop, over the files of the lookup outside a set of cached paths, does the
\* same to each file
ApplyUnmatched(paths, file_lookup, st) ==
  IF paths = <<>> THEN st
  ELSE LET f == Head(paths)
           next ==
             IF f \notin file_lookup THEN st
             ELSE [p |-> [st.p EXCEPT !.unmatched_files = Append(@, f)],
                   fd |-> [st.fd EXCEPT ![f] = FileData(NoType, 0, UNMATCHED)]]
       IN ApplyUnmatched(Tail(paths), file_lookup, next)

\* MatchCache._apply_cached_matches on the fresh aggregate st = [p, fd]
_apply_cached_matches(st, entry) ==
  LET reset == [st.p EXCEPT !.cbct_files = <<>>, !.ios_upper = NoFile,
                            !.ios_lower = NoFile, !.intraoral_photos = <<>>,
                            !.teleradiography = NoFile,
                            !.orthopantomography = NoFile,
                            !.unmatched_files = <<>>]
      cached_files == {entry.matched_files[i].path :
                         i \in 1..Len(entry.matched_files)}
                      \cup Range(entry.unmatched_files)
      IsNew(f) == f \notin cached_files
      Finish(s3) ==
        [p |-> [s3.p EXCEPT !.manually_complete = entry.manually_complete],
         fd |-> s3.fd]
      \* the three loops over the files of the fresh aggregate
      Loops(all_files, file_lookup) ==
        Finish(ApplyUnmatched(
                 SelectSeq(all_files, IsNew), file_lookup,
                 ApplyUnmatched(
                   entry.unmatched_files, file_lookup,
                   ApplyMatched(entry.matched_files, file_lookup,
                                [p |-> reset, fd |-> st.fd]))))
      Lookup(all_files) == Loops(all_files, Range(all_files))
  IN Lookup(Dedup(get_all_files(st.p), {}))

\* MatchCache._deserialize_patient_data
_deserialize_patient_data(entry, dir, converter_ok, denied) ==
  _apply_cached_matches(analyze_patient_folder(TRUE, dir, converter_ok, denied),
                        entry)

(***************************************************************************)
(* Upload file gathering (core/api_client.py)                              *)
(***************************************************************************)
\* the converted NIfTI volume and the zip package are files outside the
\* patient folder
NiftiFile == 0 - 1
ZipFile == 0 - 2

Item(f, m) == [file |-> f, modality |-> m]

\* TF4MAPIClient._get_all_patient_files: the (file, modality) list
_get_all_patient_files(pd, fdd) ==
  LET NotExcluded(f) == fdd[f].data_type # EXCLUDE
      One(f, m) == IF f # NoFile /\ NotExcluded(f) THEN <<Item(f, m)>> ELSE <<>>
      kept_cbct == SelectSeq(pd.cbct_files, NotExcluded)
      kept_photos == SelectSeq(pd.intraoral_photos, NotExcluded)
  IN (IF pd.nifti_conversion_status = "completed"
      THEN <<Item(NiftiFile, "cbct")>>
      ELSE [i \in 1..Len(kept_cbct) |-> Item(kept_cbct[i], "cbct")])
     \o One(pd.ios_upper, "upper_scan_raw")
     \o One(pd.ios_lower, "lower_scan_raw")
     \o [i \in 1..Len(kept_photos) |-> Item(kept_photos[i], "intraoral_photos")]
     \o One(pd.teleradiography, "teleradiography")
     \o One(pd.orthopantomography, "panoramich")
     \o (IF pd.zip_package THEN <<Item(ZipFile, "rawzip")>> ELSE <<>>)

\* TF4MAPIClient._create_new_patient: the multipart files_to_upload of the
\* upload request, for the files that exist in the folder dir
_create_new_patient(pd, dir) ==
  LET One(f, m) == IF f # NoFile /\ f \in dir THEN <<Item(f, m)>> ELSE <<>>
      OnDisk(f) == f \in dir
      photos == SelectSeq(pd.intraoral_photos, OnDisk)
  IN One(pd.ios_upper, "upper_scan_raw")
     \o One(pd.ios_lower, "lower_scan_raw")
     \o (IF pd.nifti_conversion_status = "completed"
         THEN <<Item(NiftiFile, "cbct")>>
         ELSE IF pd.cbct_files # <<>> THEN One(pd.cbct_files[1], "cbct")
         ELSE <<>>)
     \o [i \in 1..Len(photos) |-> Item(photos[i], "intraoral_photos")]
     \o One(pd.teleradiography, "teleradiography")
     \o One(pd.orthopantomography, "panoramic")
     \o (IF pd.zip_package THEN <<Item(ZipFile, "rawzip")>> ELSE <<>>)

(***************************************************************************)
(* Bounds of the model                                                     *)
(***************************************************************************)
\* manual reassignments in one behaviour
MaxReassign == 1
\* the clock advances TickDays at a time while it is below MaxNow
TickDays == 30
MaxNow == 30
\* changes of the modification time of the patient folder
MaxDirMtime == 1
\* writes of one cache file
MaxWrites == 2
\* files of a folder that is classified
MaxFolderFiles == 3

(***************************************************************************)
(* State                                                                   *)
(***************************************************************************)
VARIABLES
  folder,            \* the paths present in the patient folder on disk
  converter_ok,      \* the external DICOM to NIfTI converter is available
  has_project,       \* ProjectManager.project_data holds the patient
  p,                 \* the PatientData aggregate held in memory
  fd,                \* the fields of the FileData object of each path
  start_files,       \* the files of the aggregate first produced
  cache_file_exists, \* the sidecar .tf4m_cache.json exists in the folder
  cache_data,        \* the entries of the sidecar: <<>> or <<CacheEntry>>
  sidecar_form,      \* how the text of the sidecar reads to json.load and CacheEntry
  dir_mtime,         \* st_mtime of the patient folder
  now,               \* time.time(), in days
  n_reassign,        \* manual reassignments made so far
  last,              \* the last operation and its result
  folder_exists,     \* os.path.exists(folder_path)
  unreadable,        \* the subfolders whose listing raises PermissionError
  reassign_limit,    \* manual reassignments followed in a run
  remove_fails,      \* os.remove of the sidecar raises OSError
  central_file,      \* what cache_dir/patient_matches.json holds on disk
  temp_file,         \* what patient_matches.json.tmp holds on disk
  sidecar_file,      \* what .tf4m_cache.json holds on disk
  writer,            \* the position of a thread inside a cache write
  reader_saw,        \* what a concurrent reader found when it opened a file
  tree,              \* the files below a folder whose fingerprint is taken
  walk_order,        \* the order in which os.walk yields the subfolders
  hash_now,          \* get_folder_hash of the folder as it is
  hash_prev,         \* get_folder_hash of the folder before the last change
  change,            \* the last change of the folder
  image,             \* an image file handed to _analyze_single_file
  image_result,      \* the FileData _analyze_single_file returned for it
  scan_tree,         \* the directories and files below a project root
  scanned,           \* the directory the last listing was asked for
  found_folders,     \* what _find_patient_folders returned
  found_files,       \* what _get_files_in_folder returned
  base_url,          \* TF4MAPIClient.base_url
  username,          \* TF4MAPIClient.username
  password,          \* TF4MAPIClient.password
  is_authenticated,  \* TF4MAPIClient.is_authenticated
  session,           \* the user the cookies of self.session stand for, per server
  api_last,          \* the last call on the client and its result
  remote_exists,     \* the server has a patient of the name
  remote_files,      \* the file hashes the server lists for that patient
  local_files,       \* the hashes of the local files of the upload list
  requests,          \* the requests the last upload_patient_data issued
  upload_result,     \* what the last upload_patient_data returned
  upload_queue,      \* UploadManager.upload_queue: the patients still to upload
  start_btn,         \* the state of the start button of the upload manager
  current_upload,    \* UploadManager.current_upload
  upload_stats,      \* UploadManager.upload_stats
  worker,            \* the upload threads: position, patient and result
  cached_status,     \* per patient, upload_status of its cache entry
  n_bulk,            \* the calls of start_bulk_upload so far
  n_pending,         \* per patient, how often it was put on the queue
                     \* less how often its upload was called
  patients,          \* ProjectData.patients: the folders of the aggregates
  global_errors,     \* ProjectData.global_errors
  project_call       \* the last analyze_project: its inputs and how it ended

\* what no operation of the program changes
folderVars == <<folder, converter_ok, folder_exists, unreadable,
                reassign_limit, remove_fails>>

\* the folder whose fingerprint is taken
hashVars == <<tree, walk_order, hash_now, hash_prev, change>>

\* the image whose content is analysed
imgVars == <<image, image_result>>

\* the directory tree that is listed
listVars == <<scan_tree, scanned, found_folders, found_files>>

\* the API client
apiVars == <<base_url, username, password, is_authenticated, session,
             api_last>>

\* the upload of one patient
upVars == <<remote_exists, remote_files, local_files, requests,
            upload_result>>

\* the parts added after the API client
\* the upload manager and its worker threads
workerVars == <<upload_queue, start_btn, current_upload, upload_stats, worker,
                cached_status, n_bulk, n_pending>>

\* the analysis of a project
projVars == <<patients, global_errors, project_call>>

moreVars == <<upVars, workerVars, projVars>>

\* the state of the parts that are modelled on their own
auxVars == <<hashVars, imgVars, listVars, apiVars, moreVars>>

\* what the operations on the aggregate and on the cache leave alone
envVars == <<folderVars, auxVars>>

\* the files of the cache as a concurrent reader sees them
writeVars == <<central_file, temp_file, sidecar_file, writer, reader_saw>>

\* the aggregate, the sidecar as one thread sees it, the clock
stateVars == <<has_project, p, fd, start_files,
               cache_file_exists, cache_data, sidecar_form, dir_mtime, now, n_reassign, last>>

vars == <<envVars, writeVars, stateVars>>

\* last: the operation, its arguments, its result and, for an operation that
\* looks the cache up, the outcome of the lookup
Op(o, f, t, r, l) ==
  [op |-> o, path |-> f, data_type |-> t, ok |-> r, lookup |-> l]
NoOp == Op("init", NoFile, NoType, FALSE, "")
\* any operation whose result no property refers to
Other == Op("other", NoFile, NoType, TRUE, "")

\* A cache file on disk, as a reader finds it: missing, or holding the
\* complete serialisation of the v-th write, or opened for writing and still
\* empty, or holding the beginning of the serialisation
Missing == [kind |-> "missing", version |-> 0]
Complete(v) == [kind |-> "complete", version |-> v]
Truncated(v) == [kind |-> "truncated", version |-> v]
Partial(v) == [kind |-> "partial", version |-> v]

\* the state after construction: nothing analysed, no sidecar
Constructed ==
  \* the converter is only run on a folder that has a CBCT subfolder
  /\ converter_ok \in (IF FilesAt(folder, "cbct") # <<>> THEN BOOLEAN
                        ELSE {FALSE})
  /\ has_project = FALSE
  /\ p = EmptyPatient
  /\ fd = [f \in Paths |-> DefaultFileData]
  /\ start_files = {}
  /\ cache_file_exists = FALSE
  /\ cache_data = <<>>
  /\ sidecar_form = "current"
  /\ dir_mtime = 0
  /\ now = 0
  /\ n_reassign = 0
  /\ last = NoOp
  /\ central_file = Missing
  /\ temp_file = Missing
  /\ sidecar_file = Missing
  /\ writer = [pc |-> "idle", version |-> 0]
  /\ reader_saw = [store |-> "none", content |-> Missing, before |-> Missing]

\* no fingerprint has been taken
HashIdle ==
  /\ tree = {}
  /\ walk_order = <<>>
  /\ hash_now = <<>>
  /\ hash_prev = <<>>
  /\ change = "none"

\* no image has been analysed
ImageIdle ==
  /\ image = <<>>
  /\ image_result = <<>>

\* the parts that are modelled on their own are not in use
\* no directory has been listed
ListIdle ==
  /\ scan_tree = {}
  /\ scanned = <<>>
  /\ found_folders = <<>>
  /\ found_files = {}

\* no user, as None or as the empty string
NoUser == ""

BaseUrls == {"http://a", "http://b"}

\* TF4MAPIClient.__init__(base_url): no call has been made
ApiIdle ==
  /\ base_url = "http://a"
  /\ username = NoUser
  /\ password = NoUser
  /\ is_authenticated = FALSE
  /\ session = [u \in BaseUrls |-> NoUser]
  /\ api_last = [op |-> "init", ok |-> FALSE, posted |-> FALSE,
                 accepted |-> FALSE]

\* the result before any upload was asked for
NoUpload == [ok |-> FALSE, message |-> "none", delete_before_reupload |-> FALSE]

\* no upload has been asked for
UploadIdle ==
  /\ remote_exists = FALSE
  /\ remote_files = {}
  /\ local_files = {}
  /\ requests = <<>>
  /\ upload_result = NoUpload

\* the patients of a project and the upload threads
Patients == {"patient_a", "patient_b"}
Workers == {"thread_1", "thread_2"}
NoPatient == "nobody"

\* a thread that is not running
IdleWorker == [pc |-> "idle", patient |-> NoPatient, success |-> FALSE,
               marked |-> FALSE]

\* UploadManager.__init__
NoStats == [total |-> 0, completed |-> 0, failed |-> 0]

\* the upload manager as constructed, for a project without cache entries
WorkerIdle ==
  /\ upload_queue = <<>>
  /\ start_btn = "disabled"
  /\ current_upload = NoPatient
  /\ upload_stats = NoStats
  /\ worker = [w \in Workers |-> IdleWorker]
  /\ cached_status = [a \in Patients |-> "none"]
  /\ n_bulk = 0
  /\ n_pending = [a \in Patients |-> 0]

\* no project was analysed
NoCall == [root_exists |-> TRUE, listing |-> "ok", raising |-> {},
           callback |-> "none", raised |-> FALSE, done |-> FALSE]

ProjectIdle ==
  /\ patients = <<>>
  /\ global_errors = <<>>
  /\ project_call = NoCall

MoreIdle == UploadIdle /\ WorkerIdle /\ ProjectIdle

AuxIdle ==
  /\ HashIdle
  /\ ImageIdle
  /\ ListIdle
  /\ ApiIdle
  /\ MoreIdle

Init ==
  /\ folder \in Folders
  /\ folder_exists = TRUE
  /\ unreadable = {}
  /\ reassign_limit = MaxReassign
  /\ remove_fails = FALSE
  /\ Constructed
  /\ AuxIdle

\* creating or removing the sidecar is a change of the folder: its
\* modification time moves on unless the clock of the file system is too coarse
DirMtimeAfterChange == {dir_mtime} \cup
  (IF dir_mtime < MaxDirMtime THEN {dir_mtime + 1} ELSE {})

\* MatchCache.save_patient_cache: the sidecar is written in place, and created
\* when it did not exist
save_patient_cache(data) ==
  /\ cache_data' = data
  /\ cache_file_exists' = TRUE
  /\ sidecar_form' = "current"
  /\ dir_mtime' \in (IF cache_file_exists THEN {dir_mtime}
                     ELSE DirMtimeAfterChange)

\* MatchCache.cache_matches(patient_data): the fingerprint is taken before the
\* sidecar is written
SaveMatches(pd, fdd) ==
  save_patient_cache(
    <<cache_matches(pd, fdd, get_folder_hash(folder, dir_mtime), now)>>)

\* How the text of a sidecar reads: as this version writes it; as a version
\* before manually_complete wrote it; not JSON; not readable (open fails);
\* an entry without a field that has no default; an entry with a field
\* CacheEntry does not have; an entry that is not an object
SidecarForms == {"current", "older", "not_json", "unreadable",
                 "required_missing", "unknown_field", "non_object"}

\* CacheEntry(**entry_data) raises TypeError, which load_patient_cache does
\* not catch
LoadRaises ==
  /\ cache_file_exists
  /\ sidecar_form \in {"required_missing", "unknown_field", "non_object"}

\* the fields an entry of an older version lacks take the dataclass defaults
DefaultFilled(data) ==
  IF data = <<>> THEN data
  ELSE <<[data[1] EXCEPT !.manually_complete = FALSE,
                         !.upload_status = "not_uploaded",
                         !.remote_patient_id = "None",
                         !.last_upload_attempt = "None",
                         !.upload_error_message = "",
                         !.uploaded_file_hashes = {}]>>

\* MatchCache.load_patient_cache, when it raises nothing: IOError and
\* JSONDecodeError give the empty dictionary
load_patient_cache ==
  IF ~cache_file_exists THEN <<>>
  ELSE IF sidecar_form = "current" THEN cache_data
  ELSE IF sidecar_form = "older" THEN DefaultFilled(cache_data)
  ELSE <<>>

\* the operation ends with the exception of load_patient_cache
Raised(o) ==
  /\ last' = Op(o, NoFile, NoType, FALSE, "raised")
  /\ UNCHANGED <<envVars, writeVars, has_project, p, fd, start_files,
                 cache_file_exists, cache_data, sidecar_form, dir_mtime, now,
                 n_reassign>>

\* the outcome of MatchCache.get_cached_matches: "none" (no entry),
\* "invalid" (entry removed) or "hit"
CacheLookup ==
  LET data == load_patient_cache
  IN IF data = <<>> THEN "none"
     ELSE IF ~is_valid(data[1], get_folder_hash(folder, dir_mtime), now)
     THEN "invalid"
     ELSE "hit"

NoteStart(pd) ==
  start_files' = IF has_project THEN start_files
                 ELSE Range(get_all_files(pd))

\* the new aggregate keeps the unmatched files of the aggregate held in memory
AnalyzeNoCacheKeeps ==
  \E r \in {analyze_patient_folder(folder_exists, folder, converter_ok,
                                     unreadable)} :
     /\ p' = [r.p EXCEPT !.unmatched_files = p.unmatched_files \o @]
     /\ fd' = r.fd
     /\ has_project' = TRUE
     /\ NoteStart(r.p)
     /\ last' = Op("analyze", NoFile, NoType, TRUE, "")
     /\ UNCHANGED <<envVars, writeVars, cache_file_exists, cache_data,
                    sidecar_form, dir_mtime, now, n_reassign>>

\* a fresh analysis that saves its result like the analysis with the cache
AnalyzeNoCacheSaves ==
  \E r \in {analyze_patient_folder(folder_exists, folder, converter_ok,
                                     unreadable)} :
     /\ p' = r.p
     /\ fd' = r.fd
     /\ has_project' = TRUE
     /\ NoteStart(r.p)
     /\ last' = Op("analyze", NoFile, NoType, TRUE, "")
     /\ SaveMatches(r.p, r.fd)
     /\ UNCHANGED <<envVars, writeVars, now, n_reassign>>

\* FileAnalyzer.analyze_patient_folder(folder_path, use_cache=False)
AnalyzeNoCache ==
  \E r \in {analyze_patient_folder(folder_exists, folder, converter_ok,
                                     unreadable)} :
     /\ p' = r.p
     /\ fd' = r.fd
     /\ has_project' = TRUE
     /\ NoteStart(r.p)
     /\ last' = Op("analyze", NoFile, NoType, TRUE, "")
     /\ UNCHANGED <<envVars, writeVars, cache_file_exists, cache_data,
                    sidecar_form, dir_mtime, now, n_reassign>>

\* FileAnalyzer.analyze_patient_folder(folder_path, use_cache=True)
AnalyzeWithCache ==
  IF LoadRaises THEN Raised("reload") ELSE
  \E look \in {CacheLookup} :
    IF look = "hit"
    THEN \E r \in {_deserialize_patient_data(load_patient_cache[1], folder,
                                             converter_ok, unreadable)} :
         \E pd \in {_run_post_processing(r.p, converter_ok)} :
           /\ p' = pd
           /\ fd' = r.fd
           /\ has_project' = TRUE
           /\ NoteStart(pd)
           /\ last' = Op("reload", NoFile, NoType, TRUE, look)
           /\ UNCHANGED <<envVars, writeVars, cache_file_exists,
                          cache_data, sidecar_form, dir_mtime, now, n_reassign>>
    ELSE \E r \in {analyze_patient_folder(folder_exists, folder, converter_ok,
                                           unreadable)} :
           /\ p' = r.p
           /\ fd' = r.fd
           /\ has_project' = TRUE
           /\ NoteStart(r.p)
           \* a folder that does not exist is returned before the save
           /\ IF folder_exists THEN SaveMatches(r.p, r.fd)
              ELSE UNCHANGED <<cache_file_exists, cache_data, sidecar_form, dir_mtime>>
           /\ last' = Op("reload", NoFile, NoType, FALSE, look)
           /\ UNCHANGED <<envVars, writeVars, now, n_reassign>>

\* ProjectManager.update_patient_file_assignment(patient_id, file_path, data_type)
Reassign(f, t) ==
  /\ n_reassign < reassign_limit
  /\ \E r \in {update_patient_file_assignment(has_project, folder, p, fd,
                                                f, t)} :
        /\ p' = r.p
        /\ fd' = r.fd
        /\ last' = Op("reassign", f, t, r.ok, "")
  /\ n_reassign' = n_reassign + 1
  /\ UNCHANGED <<envVars, writeVars, has_project, start_files,
                 cache_file_exists, cache_data, sidecar_form, dir_mtime, now>>

\* FileAnalyzer.update_cache(patient_data)
UpdateCache ==
  /\ has_project
  /\ IF LoadRaises THEN Raised("update_cache")
     ELSE /\ SaveMatches(p, fd)
          /\ last' = Other
          /\ UNCHANGED <<envVars, writeVars, has_project, p, fd,
                         start_files, now, n_reassign>>

\* PatientBrowser.toggle_manual_completion: the flag is toggled and the cache
\* is saved
ToggleManualCompletion ==
  /\ has_project
  /\ \E pd \in {[p EXCEPT !.manually_complete = ~@]} :
        /\ p' = pd
        /\ IF LoadRaises
           THEN /\ last' = Op("toggle", NoFile, NoType, FALSE, "raised")
                /\ UNCHANGED <<cache_file_exists, cache_data, sidecar_form,
                               dir_mtime>>
           ELSE /\ SaveMatches(pd, fd)
                /\ last' = Other
  /\ UNCHANGED <<envVars, writeVars, has_project, fd, start_files, now,
                 n_reassign>>

\* FileAnalyzer.has_cached_data(folder_path): get_cached_matches, which removes
\* an invalid entry, and the result compared with None
HasCachedData ==
  IF LoadRaises THEN Raised("has_cached_data") ELSE
  \E look \in {CacheLookup} :
     /\ IF look = "invalid" THEN save_patient_cache(<<>>)
        ELSE UNCHANGED <<cache_file_exists, cache_data, sidecar_form, dir_mtime>>
     /\ last' = Op("has_cached_data", NoFile, NoType, look = "hit", look)
     /\ UNCHANGED <<envVars, writeVars, has_project, p, fd, start_files,
                    now, n_reassign>>

\* MatchCache.invalidate_cache(folder_path): the sidecar is removed; an
\* OSError of os.remove is logged and the call returns
InvalidateCache ==
  /\ IF cache_file_exists /\ ~remove_fails
     THEN /\ cache_file_exists' = FALSE
          /\ cache_data' = <<>>
          /\ sidecar_form' = "current"
          /\ dir_mtime' \in DirMtimeAfterChange
     ELSE UNCHANGED <<cache_file_exists, cache_data, sidecar_form, dir_mtime>>
  /\ last' = Op("invalidate", NoFile, NoType, TRUE, "")
  /\ UNCHANGED <<envVars, writeVars, has_project, p, fd, start_files, now,
                 n_reassign>>

\* time passes
Tick ==
  /\ now < MaxNow
  /\ now' = now + TickDays
  /\ last' = Other
  /\ UNCHANGED <<envVars, writeVars, has_project, p, fd, start_files,
                 cache_file_exists, cache_data, sidecar_form, dir_mtime, n_reassign>>

\* a reassignment of any file of the folder to any data type
ReassignAny == \E f \in folder, t \in DataType : Reassign(f, t)

Next ==
  \/ AnalyzeNoCache
  \/ AnalyzeWithCache
  \/ ReassignAny
  \/ UpdateCache
  \/ ToggleManualCompletion
  \/ HasCachedData
  \/ InvalidateCache
  \/ Tick

Spec == Init /\ [][Next]_vars

(***************************************************************************)
(* Classification of any small folder, readable or not, existing or not    *)
(* (core/file_analyzer.py analyze_patient_folder)                          *)
(***************************************************************************)
ClassifyFolders == {d \in SUBSET Paths : Cardinality(d) <= MaxFolderFiles}

InitClassify ==
  /\ folder_exists \in BOOLEAN
  /\ folder \in (IF folder_exists THEN ClassifyFolders ELSE {{}})
  /\ unreadable \in SUBSET {l \in {"cbct", "ios"} :
                              \E f \in folder : FileTable[f].loc = l}
  /\ reassign_limit = 0
  /\ remove_fails = FALSE
  /\ Constructed
  /\ AuxIdle

ClassifyNext ==
  \/ AnalyzeNoCache
  \/ AnalyzeWithCache

ClassifySpec == InitClassify /\ [][ClassifyNext]_vars

(***************************************************************************)
(* A session with one reassignment more, on a folder with a single file    *)
(***************************************************************************)
InitRepeat ==
  /\ folder = {8}
  /\ folder_exists = TRUE
  /\ unreadable = {}
  /\ reassign_limit = MaxReassign + 1
  /\ remove_fails = FALSE
  /\ Constructed
  /\ AuxIdle

SpecRepeat == InitRepeat /\ [][Next]_vars

(***************************************************************************)
(* Reassignments of any path for any patient id, in a folder from which    *)
(* files are deleted                                                       *)
(***************************************************************************)
MaxDeleted == 1

ReassignFor(patient_id, f, t) ==
  /\ n_reassign < reassign_limit
  /\ \E r \in {update_assignment_of(patient_id, has_project, folder, p, fd,
                                      f, t)} :
        /\ p' = r.p
        /\ fd' = r.fd
        /\ last' = Op("reassign", f, t, r.ok, "")
  /\ n_reassign' = n_reassign + 1
  /\ UNCHANGED <<envVars, writeVars, has_project, start_files,
                 cache_file_exists, cache_data, sidecar_form, dir_mtime, now>>

\* the paths a caller passes: the files of the folder, those deleted from
\* it, and one path that never was in the folder
CallerPaths ==
  folder \cup start_files
    \cup {CHOOSE f \in Paths : f \notin folder \cup start_files}

ReassignAnyPath ==
  \E patient_id \in PatientIds, f \in CallerPaths, t \in DataType :
     ReassignFor(patient_id, f, t)

\* a file of the folder is deleted from disk; the folder's modification time
\* moves on when the file was directly in it
DeleteFile ==
  /\ has_project
  /\ Cardinality(start_files \ folder) < MaxDeleted
  /\ \E f \in folder :
        /\ folder' = folder \ {f}
        /\ dir_mtime' \in (IF FileTable[f].loc = "main"
                            THEN DirMtimeAfterChange ELSE {dir_mtime})
  /\ last' = Other
  /\ UNCHANGED <<converter_ok, folder_exists, unreadable, reassign_limit,
                 remove_fails, auxVars,
                 writeVars, has_project, p, fd, start_files,
                 cache_file_exists, cache_data, sidecar_form, now,
                 n_reassign>>

ReassignNext ==
  \/ AnalyzeNoCache
  \/ DeleteFile
  \/ ReassignAnyPath

ReassignSpec == Init /\ [][ReassignNext]_vars

(***************************************************************************)
(* A sidecar whose text is changed from outside the program                *)
(***************************************************************************)
DamageSidecar ==
  /\ cache_file_exists
  /\ sidecar_form = "current"
  /\ sidecar_form' \in SidecarForms \ {"current"}
  /\ last' = Other
  /\ UNCHANGED <<envVars, writeVars, has_project, p, fd, start_files,
                 cache_file_exists, cache_data, dir_mtime, now, n_reassign>>

DamageNext ==
  \/ AnalyzeNoCache
  \/ AnalyzeWithCache
  \/ UpdateCache
  \/ ToggleManualCompletion
  \/ HasCachedData
  \/ DamageSidecar

DamageSpec == Init /\ [][DamageNext]_vars

(***************************************************************************)
(* A sidecar in which the data_type of one file is no value of DataType    *)
(***************************************************************************)
InvalidType == "bogus"

HasInvalidType(entry) ==
  \E i \in 1..Len(entry.matched_files) :
     entry.matched_files[i].data_type \notin DataType

TamperDataType ==
  /\ cache_file_exists
  /\ sidecar_form = "current"
  /\ cache_data # <<>>
  /\ ~HasInvalidType(cache_data[1])
  /\ \E i \in 1..Len(cache_data[1].matched_files) :
        cache_data' = <<[cache_data[1] EXCEPT
                          !.matched_files[i].data_type = InvalidType]>>
  /\ last' = Other
  /\ UNCHANGED <<envVars, writeVars, has_project, p, fd, start_files,
                 cache_file_exists, sidecar_form, dir_mtime, now, n_reassign>>

TamperNext ==
  \/ AnalyzeNoCache
  \/ AnalyzeWithCache
  \/ ReassignAny
  \/ UpdateCache
  \/ TamperDataType

TamperSpec == Init /\ [][TamperNext]_vars

(***************************************************************************)
(* Folders that hold files the analyzer leaves out                         *)
(* (core/file_analyzer.py _should_ignore_file and its three callers)       *)
(***************************************************************************)
IgnoreFolders == {
  {3, 14},          \* a photo and Thumbs.db
  {6, 17},          \* CBCT folder with a DICOM file and a hidden DICOM file
  {8, 18},          \* an STL file without keyword and a hidden STL file
  {10, 12, 18},     \* upper and lower STL files and a hidden STL file
  {14, 17, 18}      \* nothing but files that are left out
}

InitIgnore ==
  /\ folder \in IgnoreFolders
  /\ folder_exists = TRUE
  /\ unreadable = {}
  /\ reassign_limit = MaxReassign
  /\ remove_fails = FALSE
  /\ Constructed
  /\ AuxIdle

IgnoreNext ==
  \/ AnalyzeNoCache
  \/ AnalyzeWithCache
  \/ ReassignAny
  \/ UpdateCache

IgnoreSpec == InitIgnore /\ [][IgnoreNext]_vars

(***************************************************************************)
(* Invalidation of the cache of a folder whose sidecar may not be          *)
(* removable (core/match_cache.py invalidate_cache)                        *)
(***************************************************************************)
InitInvalidate ==
  /\ folder \in Folders
  /\ folder_exists = TRUE
  /\ unreadable = {}
  /\ reassign_limit = MaxReassign
  /\ remove_fails \in BOOLEAN
  /\ Constructed
  /\ AuxIdle

InvalidateNext ==
  \/ AnalyzeNoCache
  \/ AnalyzeWithCache
  \/ UpdateCache
  \/ HasCachedData
  \/ InvalidateCache
  \/ Tick

InvalidateSpec == InitInvalidate /\ [][InvalidateNext]_vars

(***************************************************************************)
(* The fingerprint of a folder tree (core/match_cache.py get_folder_hash)  *)
(***************************************************************************)
\* files of the tree
MaxTreeFiles == 2

CacheFilename == ".tf4m_cache.json"
\* the file names, in the order of sorted()
TreeNames == <<".tf4m_cache.json", "a.stl", "b.stl">>
\* the folder itself and its subfolders
TreeDirs == {".", "cbct", "scan"}
WalkOrders == {<<"cbct", "scan">>, <<"scan", "cbct">>}
\* st_size of a file: every file of the tree has the same size
FileSizes == {1}
FileBytes == {"x", "y"}

TreeFile(d, n, sz, b) ==
  [dir |-> d, name |-> n, mtime |-> 0, size |-> sz, bytes |-> b]

InTree(t, d, n) == \E f \in t : f.dir = d /\ f.name = n

\* the record "rel_path:st_mtime:st_size" of a file
HashRecord(f) == <<f.dir, f.name, f.mtime, f.size>>

\* the records of the files of one directory: for filename in
\* sorted(filenames), the cache file name skipped
DirRecords(t, d) ==
  LET Listed(n) == n # CacheFilename /\ InTree(t, d, n)
      names == SelectSeq(TreeNames, Listed)
  IN [i \in 1..Len(names) |->
        HashRecord(CHOOSE f \in t : f.dir = d /\ f.name = names[i])]

RECURSIVE WalkRecords(_, _)
\* the records of the subfolders, in the order os.walk yields them
WalkRecords(t, walk) ==
  IF walk = <<>> THEN <<>>
  ELSE DirRecords(t, Head(walk)) \o WalkRecords(t, Tail(walk))

\* the fingerprint takes the folder's st_mtime and the file count only
get_folder_hash_of_treeCount(t, mtime, walk) ==
  [stat |-> mtime,
   files |-> Len(DirRecords(t, ".") \o WalkRecords(t, walk))]

\* MatchCache.get_folder_hash on a tree of files: the digest is modelled by
\* the text it is taken of, the stat of the folder and the joined records
get_folder_hash_of_tree(t, mtime, walk) ==
  [stat |-> mtime,
   files |-> DirRecords(t, ".") \o WalkRecords(t, walk)]

InitHash ==
  /\ folder = {}
  /\ folder_exists = TRUE
  /\ unreadable = {}
  /\ reassign_limit = 0
  /\ remove_fails = FALSE
  /\ Constructed
  /\ tree = {}
  /\ walk_order \in WalkOrders
  /\ hash_now = get_folder_hash_of_tree({}, 0, walk_order)
  /\ hash_prev = hash_now
  /\ change = "none"
  /\ ImageIdle
  /\ ListIdle
  /\ ApiIdle
  /\ MoreIdle

\* the tree becomes t2: the folder's own mtime moves on when the change is
\* directly in it, and the fingerprint is taken again
Changed(t2, d, kind) ==
  /\ tree' = t2
  /\ dir_mtime' \in (IF d = "." THEN DirMtimeAfterChange ELSE {dir_mtime})
  /\ hash_prev' = hash_now
  /\ hash_now' = get_folder_hash_of_tree(t2, dir_mtime', walk_order)
  /\ change' = kind
  /\ UNCHANGED <<folderVars, writeVars, imgVars, listVars, apiVars, moreVars, walk_order,
                 has_project,
                 p, fd, start_files, cache_file_exists, cache_data, sidecar_form,
                 now, n_reassign, last>>

AddFile ==
  /\ Cardinality(tree) < MaxTreeFiles
  /\ \E d \in TreeDirs, i \in 1..Len(TreeNames), sz \in FileSizes,
        b \in FileBytes :
        /\ ~InTree(tree, d, TreeNames[i])
        /\ Changed(tree \cup {TreeFile(d, TreeNames[i], sz, b)}, d,
                   IF TreeNames[i] = CacheFilename THEN "sidecar" ELSE "add")

RemoveFile ==
  \E f \in tree :
     Changed(tree \ {f}, f.dir,
             IF f.name = CacheFilename THEN "sidecar" ELSE "remove")

RenameFile ==
  \E f \in tree, i \in 1..Len(TreeNames) :
     /\ f.name # CacheFilename
     /\ TreeNames[i] # CacheFilename
     /\ ~InTree(tree, f.dir, TreeNames[i])
     /\ Changed((tree \ {f}) \cup {[f EXCEPT !.name = TreeNames[i]]}, f.dir,
                "rename")

\* the bytes of a file change, its size and mtime stay
RewriteFile ==
  \E f \in tree, b \in FileBytes :
     /\ b # f.bytes
     /\ tree' = (tree \ {f}) \cup {[f EXCEPT !.bytes = b]}
     /\ hash_prev' = hash_now
     /\ hash_now' = get_folder_hash_of_tree(tree', dir_mtime, walk_order)
     /\ change' = "rewrite"
     /\ UNCHANGED <<folderVars, writeVars, stateVars, imgVars, listVars, apiVars, moreVars,
                    walk_order>>

\* the operating system enumerates the subfolders in another order
Relist ==
  /\ \E w \in WalkOrders \ {walk_order} : walk_order' = w
  /\ hash_prev' = hash_now
  /\ hash_now' = get_folder_hash_of_tree(tree, dir_mtime, walk_order')
  /\ change' = "relist"
  /\ UNCHANGED <<folderVars, writeVars, stateVars, imgVars, listVars, apiVars, moreVars,
                 tree>>

HashNext ==
  \/ AddFile
  \/ RemoveFile
  \/ RenameFile
  \/ RewriteFile
  \/ Relist

HashSpec == InitHash /\ [][HashNext]_vars

(***************************************************************************)
(* The classification of one image file by its content                     *)
(* (core/file_analyzer.py _analyze_single_file, _analyze_image_properties, *)
(* _classify_image_by_content, _is_grayscale_image).  An image is the      *)
(* record of what the code reads from it: ext the lower-cased extension,   *)
(* tele and ortho the results of _matches_patterns on the file name, opens *)
(* whether Image.open succeeds, mode, width and height, hist_diff the      *)
(* averaged normalised histogram difference of the channels and            *)
(* avg_saturation in hundredths, avg_red, avg_green, avg_blue the channel  *)
(* means over the sample grid, variance the largest channel variance.      *)
(***************************************************************************)
ImageExtensions == {".jpg", ".jpeg", ".png", ".bmp", ".tiff", ".tif"}

Images ==
  [ext : {".jpg", ".pdf"}, tele : BOOLEAN, ortho : BOOLEAN, opens : BOOLEAN,
   mode : {"RGB", "L"}, width : {60, 75, 100, 130, 160}, height : {100},
   hist_diff : {10, 25, 50}, avg_saturation : {10, 35, 50},
   avg_red : {100, 160}, avg_green : {110, 130}, avg_blue : {90, 140},
   variance : {500, 900, 1200}]

\* img.convert('RGB'): the three channels of a converted grayscale image are
\* equal
ConvertRGB(img) ==
  IF img.mode = "RGB" THEN img
  ELSE [img EXCEPT !.mode = "RGB", !.hist_diff = 0, !.avg_saturation = 0,
                   !.avg_green = img.avg_red, !.avg_blue = img.avg_red]

\* avg_brightness > n, with avg_brightness = 0.299 r + 0.587 g + 0.114 b
BrighterThan(img, n) ==
  299 * img.avg_red + 587 * img.avg_green + 114 * img.avg_blue > 1000 * n

\* FileAnalyzer._classify_image_by_content; DataType has no member
\* FACIAL_PHOTO, so the branch that names it raises AttributeError, which the
\* method catches, and the method returns None
_classify_image_by_content(image0) ==
  LET img == ConvertRGB(image0)
      is_near_grayscale == img.hist_diff < 30
      red_dominant == img.avg_red > img.avg_green /\ img.avg_red > img.avg_blue
      pink_red_tones ==
        img.avg_red > 150 /\ img.avg_green < 120 /\ img.avg_blue < 120
      skin_tone_detected ==
        /\ 120 < img.avg_red /\ img.avg_red < 200
        /\ 100 < img.avg_green /\ img.avg_green < 180
        /\ 80 < img.avg_blue /\ img.avg_blue < 160
        /\ img.avg_red > img.avg_green /\ img.avg_green > img.avg_blue
  IN IF is_near_grayscale /\ img.hist_diff < 20 THEN NoType
     ELSE IF /\ img.avg_saturation > 30
             /\ ~is_near_grayscale
             /\ (pink_red_tones \/ red_dominant)
             /\ BrighterThan(img, 80)
             /\ img.variance > 1000
          THEN INTRAORAL_PHOTO
     ELSE IF /\ 20 < img.avg_saturation /\ img.avg_saturation < 60
             /\ ~is_near_grayscale
             /\ skin_tone_detected
             /\ BrighterThan(img, 60)
             /\ img.variance > 800
          THEN NoType
     ELSE IF img.avg_saturation > 40 /\ ~is_near_grayscale
          THEN INTRAORAL_PHOTO
     ELSE NoType

\* FileAnalyzer._is_grayscale_image
_is_grayscale_image(img) == ConvertRGB(img).hist_diff < 30

\* FileAnalyzer._analyze_image_properties; aspect_ratio = width / height
_analyze_image_properties(img) ==
  IF ~img.opens THEN NoType
  ELSE LET rgb_analysis == _classify_image_by_content(img)
           is_grayscale ==
             \/ img.mode \in {"L", "1"}
             \/ img.mode = "RGB" /\ _is_grayscale_image(img)
       IN IF is_grayscale
          THEN IF /\ 8 * img.height <= 10 * img.width
                  /\ 10 * img.width <= 12 * img.height
               THEN TELERADIOGRAPHY
               ELSE IF \/ 10 * img.width > 15 * img.height
                       \/ 10 * img.width < 7 * img.height
                    THEN ORTHOPANTOMOGRAPHY
                    ELSE NoType
          ELSE IF rgb_analysis # NoType THEN rgb_analysis
               ELSE INTRAORAL_PHOTO

\* FileAnalyzer._analyze_single_file on a file with the properties of img
_analyze_single_file_of(img) ==
  IF img.ext \in ImageExtensions
  THEN IF img.tele THEN FileData(TELERADIOGRAPHY, 7, MATCHED)
       ELSE IF img.ortho THEN FileData(ORTHOPANTOMOGRAPHY, 7, MATCHED)
       ELSE LET image_type == _analyze_image_properties(img)
            IN IF image_type # NoType
               THEN FileData(image_type,
                             IF image_type \in {TELERADIOGRAPHY, ORTHOPANTOMOGRAPHY}
                             THEN 6 ELSE 8,
                             MATCHED)
               ELSE FileData(INTRAORAL_PHOTO, 5, MATCHED)
  ELSE FileData(NoType, 0, UNMATCHED)

InitImage ==
  /\ folder = {}
  /\ folder_exists = TRUE
  /\ unreadable = {}
  /\ reassign_limit = 0
  /\ remove_fails = FALSE
  /\ Constructed
  /\ HashIdle
  /\ ListIdle
  /\ ApiIdle
  /\ MoreIdle
  /\ image \in Images
  /\ image_result = <<>>

\* _analyze_single_file(file_path) on the image
AnalyzeImage ==
  /\ image_result' = _analyze_single_file_of(image)
  /\ UNCHANGED <<folderVars, writeVars, stateVars, hashVars, listVars,
                 apiVars, moreVars, image>>

ImageNext == AnalyzeImage

ImageSpec == InitImage /\ [][ImageNext]_vars

(***************************************************************************)
(* The listing of a project root and of a patient folder                   *)
(* (core/project_manager.py _find_patient_folders, core/file_analyzer.py   *)
(* _get_files_in_folder).  A directory tree is a set of entries, each the  *)
(* sequence of names from the root to the entry and whether it is a        *)
(* directory; the root is the empty sequence.                              *)
(***************************************************************************)
MaxDepth == 3
MaxEntries == 3

\* the names of the entries, in the order of sorted()
Names == <<".cache", "TMP", "a.jpg", "p1", "tmp">>

\* str.lower()
Lower(name) == IF name = "TMP" THEN "tmp" ELSE name

\* the name is compared as it is spelled
IsTmpExact(name) == name = "tmp"

\* item.lower() == 'tmp'
IsTmp(name) == Lower(name) = "tmp"

\* FileAnalyzer._should_ignore_file on a name
IgnoredName(name) ==
  \/ name = ".cache"
  \/ Lower(name) \in {"thumbs.db", "desktop.ini", "icon\r"}

Last(path) == path[Len(path)]

\* os.listdir(d)
Listdir(t, d) ==
  {e \in t : /\ Len(e.path) = Len(d) + 1
              /\ SubSeq(e.path, 1, Len(d)) = d}

NameIndex(name) == CHOOSE i \in 1..Len(Names) : Names[i] = name

RECURSIVE SortedPaths(_)
\* sorted() of paths with the same parent
SortedPaths(S) ==
  IF S = {} THEN <<>>
  ELSE LET m == CHOOSE x \in S :
                  \A y \in S : NameIndex(Last(x)) <= NameIndex(Last(y))
       IN <<m>> \o SortedPaths(S \ {m})

\* ProjectManager._find_patient_folders
_find_patient_folders(t, root_path) ==
  SortedPaths({e.path : e \in {x \in Listdir(t, root_path) :
                                  x.dir /\ ~IsTmp(Last(x.path))}})

RECURSIVE _get_files_in_tree(_, _, _)
\* FileAnalyzer._get_files_in_folder(folder_path, exclude_folders); the
\* order of the list is the order of os.listdir, which is left open
_get_files_in_tree(t, folder_path, exclude_folders) ==
  LET Below(e) ==
        IF IgnoredName(Last(e.path)) THEN {}
        ELSE IF ~e.dir THEN {e.path}
        ELSE IF e.path \in exclude_folders THEN {}
        ELSE IF IsTmp(Last(e.path)) THEN {}
        ELSE _get_files_in_tree(t, e.path, {})
  IN UNION {Below(e) : e \in Listdir(t, folder_path)}

\* the directories of a tree, the root included
DirsOf(t) == {<<>>} \cup {e.path : e \in {x \in t : x.dir}}

InitList ==
  /\ folder = {}
  /\ folder_exists = TRUE
  /\ unreadable = {}
  /\ reassign_limit = 0
  /\ remove_fails = FALSE
  /\ Constructed
  /\ HashIdle
  /\ ImageIdle
  /\ ListIdle
  /\ ApiIdle
  /\ MoreIdle

\* a directory or a file is created below the root
CreateEntry ==
  /\ Cardinality(scan_tree) < MaxEntries
  /\ \E d \in DirsOf(scan_tree), i \in 1..Len(Names), is_dir \in BOOLEAN :
        /\ Len(d) < MaxDepth
        /\ \A e \in scan_tree : e.path # Append(d, Names[i])
        /\ scan_tree' = scan_tree \cup
                          {[path |-> Append(d, Names[i]), dir |-> is_dir]}
  /\ UNCHANGED <<folderVars, writeVars, stateVars, hashVars, imgVars,
                 apiVars, moreVars,
                 scanned, found_folders, found_files>>

\* ProjectManager._find_patient_folders(root_path) on the project root
FindPatientFolders ==
  /\ scanned' = <<>>
  /\ found_folders' = _find_patient_folders(scan_tree, <<>>)
  /\ UNCHANGED <<folderVars, writeVars, stateVars, hashVars, imgVars,
                 apiVars, moreVars,
                 scan_tree, found_files>>

\* FileAnalyzer._get_files_in_folder(folder_path, exclude_folders)
GetFilesInFolder ==
  /\ \E d \in DirsOf(scan_tree) :
        \E ex \in {{}} \cup {{e.path} : e \in {x \in Listdir(scan_tree, d) : x.dir}} :
           /\ scanned' = d
           /\ found_files' = _get_files_in_tree(scan_tree, d, ex)
  /\ UNCHANGED <<folderVars, writeVars, stateVars, hashVars, imgVars,
                 apiVars, moreVars,
                 scan_tree, found_folders>>

ListNext ==
  \/ CreateEntry
  \/ FindPatientFolders
  \/ GetFilesInFolder

ListSpec == InitList /\ [][ListNext]_vars

(***************************************************************************)
(* The API client and the server it talks to (core/api_client.py).  The    *)
(* server is known to the client through its responses only: it answers a  *)
(* POST of /login/ by binding the session of the cookies to the user when  *)
(* it accepts the credentials, and the patients API with 200 for a session *)
(* that is bound to a user.  What a rejected POST does to a session that   *)
(* is already bound is the server's choice.                                *)
(***************************************************************************)
Usernames == {NoUser, "alice", "mallory"}
Passwords == {NoUser, "pw", "bad"}

\* the server accepts the credentials
Accepts(u, pw) == u = "alice" /\ pw = "pw"

\* how the requests of a login go: every response arrives with the status
\* the server means, or the login page is not 200, or no csrftoken cookie
\* is set, or the POST is not 200, or the request raises RequestException
Responses == {"ok", "page_error", "no_csrf", "post_error", "exception"}

Result(o, r, posted, accepted) ==
  [op |-> o, ok |-> r, posted |-> posted, accepted |-> accepted]

\* the session after a POST of /login/ with the credentials
AfterPost(sess, url, u, pw, keeps) ==
  IF Accepts(u, pw) THEN [sess EXCEPT ![url] = u]
  ELSE IF keeps THEN sess
  ELSE [sess EXCEPT ![url] = NoUser]

\* TF4MAPIClient.login: the result, the session and is_authenticated after it
login(url, u, pw, sess, auth, resp, keeps) ==
  IF u = NoUser \/ pw = NoUser
  THEN [ok |-> FALSE, posted |-> FALSE, session |-> sess,
        is_authenticated |-> auth]
  ELSE IF resp \in {"page_error", "no_csrf", "exception"}
  THEN [ok |-> FALSE, posted |-> FALSE, session |-> sess,
        is_authenticated |-> auth]
  ELSE IF resp = "post_error"
  THEN [ok |-> FALSE, posted |-> TRUE, session |-> sess,
        is_authenticated |-> auth]
  ELSE LET after == AfterPost(sess, url, u, pw, keeps)
       IN \* the patients API is asked with the session as it is now
          IF after[url] # NoUser
          THEN [ok |-> TRUE, posted |-> TRUE, session |-> after,
                is_authenticated |-> TRUE]
          ELSE [ok |-> FALSE, posted |-> TRUE, session |-> after,
                is_authenticated |-> auth]

InitApi ==
  /\ folder = {}
  /\ folder_exists = TRUE
  /\ unreadable = {}
  /\ reassign_limit = 0
  /\ remove_fails = FALSE
  /\ Constructed
  /\ HashIdle
  /\ ImageIdle
  /\ ListIdle
  /\ ApiIdle
  /\ MoreIdle

ApiFrame == UNCHANGED <<folderVars, writeVars, stateVars, hashVars, imgVars,
                        listVars, moreVars>>

\* client.login()
Login ==
  /\ \E resp \in Responses, keeps \in BOOLEAN :
        \E r \in {login(base_url, username, password, session,
                         is_authenticated, resp, keeps)} :
           /\ session' = r.session
           /\ is_authenticated' = r.is_authenticated
           /\ api_last' = Result("login", r.ok, r.posted,
                                  r.posted /\ Accepts(username, password))
  /\ UNCHANGED <<base_url, username, password>>
  /\ ApiFrame

\* client.test_connection()
TestConnection ==
  /\ IF ~is_authenticated
     THEN \E resp \in Responses, keeps \in BOOLEAN :
            \E r \in {login(base_url, username, password, session,
                             is_authenticated, resp, keeps)} :
               /\ session' = r.session
               /\ is_authenticated' = r.is_authenticated
               \* after a login the patients API is asked once more
               /\ \E answered \in BOOLEAN :
                     api_last' = Result("test_connection",
                                        /\ r.ok
                                        /\ answered
                                        /\ r.session[base_url] # NoUser,
                                        r.posted,
                                        r.posted /\ Accepts(username, password))
     ELSE /\ \E answered \in BOOLEAN :
               api_last' = Result("test_connection",
                                  answered /\ session[base_url] # NoUser,
                                  FALSE, FALSE)
          /\ UNCHANGED <<session, is_authenticated>>
  /\ UNCHANGED <<base_url, username, password>>
  /\ ApiFrame

\* client.set_credentials(username, password)
SetCredentials ==
  /\ \E u \in Usernames, pw \in Passwords :
        /\ username' = u
        /\ password' = pw
  /\ is_authenticated' = FALSE
  /\ api_last' = Result("set_credentials", TRUE, FALSE, FALSE)
  /\ UNCHANGED <<base_url, session>>
  /\ ApiFrame

\* client.set_base_url(base_url)
SetBaseUrl ==
  /\ \E u \in BaseUrls : base_url' = u
  /\ is_authenticated' = FALSE
  /\ api_last' = Result("set_base_url", TRUE, FALSE, FALSE)
  /\ UNCHANGED <<username, password, session>>
  /\ ApiFrame

ApiNext ==
  \/ Login
  \/ TestConnection
  \/ SetCredentials
  \/ SetBaseUrl

ApiSpec == InitApi /\ [][ApiNext]_vars

(***************************************************************************)
(* Bulk and automatic mapping of the unmatched files                       *)
(* (gui/bulk_mapping_dialog.py run_bulk_assignment, assign_file_to_patient,*)
(* gui/patient_browser.py run_smart_auto_map, _assign_file_to_patient)     *)
(***************************************************************************)
\* the data types the bulk mapping dialog offers (get_data_type_from_name)
BulkTypes == {CBCT_DICOM, IOS_UPPER, IOS_LOWER, TELERADIOGRAPHY,
              ORTHOPANTOMOGRAPHY, INTRAORAL_PHOTO}

\* BulkMappingDialog.assign_file_to_patient and
\* PatientBrowser._assign_file_to_patient: a singleton slot is assigned
\* whatever it holds
assign_file_to_patient(pd, f, t) ==
  IF t = CBCT_DICOM THEN [pd EXCEPT !.cbct_files = Append(@, f)]
  ELSE IF t = IOS_UPPER THEN [pd EXCEPT !.ios_upper = f]
  ELSE IF t = IOS_LOWER THEN [pd EXCEPT !.ios_lower = f]
  ELSE IF t = TELERADIOGRAPHY THEN [pd EXCEPT !.teleradiography = f]
  ELSE IF t = ORTHOPANTOMOGRAPHY THEN [pd EXCEPT !.orthopantomography = f]
  ELSE IF t = INTRAORAL_PHOTO THEN [pd EXCEPT !.intraoral_photos = Append(@, f)]
  ELSE pd

RECURSIVE run_bulk_assignment(_, _, _, _)
\* BulkMappingDialog.run_bulk_assignment: the loop over a copy of
\* unmatched_files
run_bulk_assignment(pd, fdd, files_to_assign, t) ==
  IF files_to_assign = <<>> THEN [p |-> pd, fd |-> fdd]
  ELSE LET f == Head(files_to_assign)
           assigned == assign_file_to_patient(pd, f, t)
       IN run_bulk_assignment(
            [assigned EXCEPT !.unmatched_files = RemoveFirst(@, f)],
            [fdd EXCEPT ![f] = FileData(t, 7, MATCHED)],
            Tail(files_to_assign), t)

\* the type run_smart_auto_map suggests for a file name
SuggestedType(f) ==
  IF \/ FileTable[f].ext = ".dcm"
     \/ Basenames[f].lower \in {"slice1.dcm", ".slice2.dcm"}
  THEN CBCT_DICOM
  ELSE IF FileTable[f].ext = ".stl"
  THEN IF FileTable[f].upper THEN IOS_UPPER
       ELSE IF FileTable[f].lower THEN IOS_LOWER
       ELSE NoType
  ELSE NoType

RECURSIVE SmartAssign(_, _, _)
\* the first loop of run_smart_auto_map: the files stay in unmatched_files
SmartAssign(pd, fdd, files) ==
  IF files = <<>> THEN [p |-> pd, fd |-> fdd, files_to_remove |-> <<>>]
  ELSE LET f == Head(files)
           t == SuggestedType(f)
       IN IF t = NoType THEN SmartAssign(pd, fdd, Tail(files))
          ELSE LET r == SmartAssign(assign_file_to_patient(pd, f, t),
                                    [fdd EXCEPT ![f] = FileData(t, 8, MATCHED)],
                                    Tail(files))
               IN [r EXCEPT !.files_to_remove = <<f>> \o @]

RECURSIVE RemoveAll(_, _)
\* the second loop of run_smart_auto_map
RemoveAll(s, files_to_remove) ==
  IF files_to_remove = <<>> THEN s
  ELSE RemoveAll(RemoveFirst(s, Head(files_to_remove)), Tail(files_to_remove))

\* PatientBrowser.run_smart_auto_map without the saves of the cache
run_smart_auto_map(pd, fdd) ==
  LET r == SmartAssign(pd, fdd, pd.unmatched_files)
  IN [p |-> [r.p EXCEPT !.unmatched_files = RemoveAll(@, r.files_to_remove)],
      fd |-> r.fd,
      mappings_made |-> Len(r.files_to_remove)]

\* BulkMappingDialog.run_bulk_assignment with a type of the dialog
RunBulkAssignment ==
  /\ has_project
  /\ p.unmatched_files # <<>>
  /\ \E t \in BulkTypes :
        \E r \in {run_bulk_assignment(p, fd, p.unmatched_files, t)} :
           /\ p' = r.p
           /\ fd' = r.fd
           /\ last' = Op("bulk", NoFile, t, TRUE, "")
  /\ UNCHANGED <<envVars, writeVars, has_project, start_files,
                 cache_file_exists, cache_data, sidecar_form, dir_mtime, now,
                 n_reassign>>

\* PatientBrowser.run_smart_auto_map: the cache is saved when a file was
\* mapped
RunSmartAutoMap ==
  /\ has_project
  /\ p.unmatched_files # <<>>
  /\ \E r \in {run_smart_auto_map(p, fd)} :
        /\ p' = r.p
        /\ fd' = r.fd
        /\ IF r.mappings_made > 0 THEN SaveMatches(r.p, r.fd)
           ELSE UNCHANGED <<cache_file_exists, cache_data, sidecar_form,
                            dir_mtime>>
        /\ last' = Op("smart", NoFile, NoType, r.mappings_made > 0, "")
  /\ UNCHANGED <<envVars, writeVars, has_project, start_files, now,
                 n_reassign>>

BulkNext ==
  \/ AnalyzeNoCache
  \/ ReassignAny
  \/ RunBulkAssignment
  \/ RunSmartAutoMap

BulkSpec == Init /\ [][BulkNext]_vars

(***************************************************************************)
(* The writes of the cache files, step by step, with a concurrent reader   *)
(* (core/match_cache.py save_cache, save_patient_cache)                    *)
(***************************************************************************)
\* the file a write in progress replaces, as it was before the write began
BeforeWrite(current) ==
  IF current.kind = "complete" /\ current.version = writer.version
  THEN current
  ELSE IF writer.version = 1 THEN Missing ELSE Complete(writer.version - 1)

\* save_cache: open(temp_file, 'w')
SaveCacheOpenTemp ==
  /\ writer.pc = "idle"
  /\ central_file.version < MaxWrites
  /\ temp_file' = Truncated(central_file.version + 1)
  /\ writer' = [pc |-> "temp_open", version |-> central_file.version + 1]
  /\ UNCHANGED <<central_file, sidecar_file, reader_saw, envVars, stateVars>>

\* save_cache: json.dump(data, f) and the end of the with block
SaveCacheDump ==
  /\ writer.pc = "temp_open"
  /\ temp_file' = Complete(writer.version)
  /\ writer' = [writer EXCEPT !.pc = "temp_written"]
  /\ UNCHANGED <<central_file, sidecar_file, reader_saw, envVars, stateVars>>

\* save_cache: if os.path.exists(self.cache_file): os.remove(self.cache_file)
SaveCacheRemove ==
  /\ writer.pc = "temp_written"
  /\ central_file' = Missing
  /\ writer' = [writer EXCEPT !.pc = "removed"]
  /\ UNCHANGED <<temp_file, sidecar_file, reader_saw, envVars, stateVars>>

\* save_cache: os.rename(temp_file, self.cache_file)
SaveCacheRename ==
  /\ writer.pc = "removed"
  /\ central_file' = temp_file
  /\ temp_file' = Missing
  /\ writer' = [writer EXCEPT !.pc = "idle"]
  /\ UNCHANGED <<sidecar_file, reader_saw, envVars, stateVars>>

\* save_patient_cache: open(cache_file, 'w') truncates the sidecar
SavePatientCacheOpen ==
  /\ writer.pc = "idle"
  /\ sidecar_file.version < MaxWrites
  /\ sidecar_file' = Truncated(sidecar_file.version + 1)
  /\ writer' = [pc |-> "sidecar_open", version |-> sidecar_file.version + 1]
  /\ UNCHANGED <<central_file, temp_file, reader_saw, envVars, stateVars>>

\* save_patient_cache: json.dump(data, f) has written a part of the text
SavePatientCacheDump ==
  /\ writer.pc = "sidecar_open"
  /\ sidecar_file' = Partial(writer.version)
  /\ writer' = [writer EXCEPT !.pc = "sidecar_partial"]
  /\ UNCHANGED <<central_file, temp_file, reader_saw, envVars, stateVars>>

\* save_patient_cache: the rest of the text and the end of the with block
SavePatientCacheClose ==
  /\ writer.pc = "sidecar_partial"
  /\ sidecar_file' = Complete(writer.version)
  /\ writer' = [writer EXCEPT !.pc = "idle"]
  /\ UNCHANGED <<central_file, temp_file, reader_saw, envVars, stateVars>>

\* load_cache by another thread: it opens and reads patient_matches.json
ReadCentral ==
  /\ reader_saw' = [store |-> "central", content |-> central_file,
                    before |-> IF writer.pc \in {"temp_open", "temp_written",
                                                 "removed"}
                               THEN BeforeWrite(central_file)
                               ELSE central_file]
  /\ UNCHANGED <<central_file, temp_file, sidecar_file, writer, envVars,
                 stateVars>>

\* load_patient_cache by another thread: it opens and reads the sidecar
ReadSidecar ==
  /\ reader_saw' = [store |-> "sidecar", content |-> sidecar_file,
                    before |-> IF writer.pc \in {"sidecar_open",
                                                 "sidecar_partial"}
                               THEN BeforeWrite(sidecar_file)
                               ELSE sidecar_file]
  /\ UNCHANGED <<central_file, temp_file, sidecar_file, writer, envVars,
                 stateVars>>

WriteNext ==
  \/ SaveCacheOpenTemp
  \/ SaveCacheDump
  \/ SaveCacheRemove
  \/ SaveCacheRename
  \/ SavePatientCacheOpen
  \/ SavePatientCacheDump
  \/ SavePatientCacheClose
  \/ ReadCentral
  \/ ReadSidecar

WriteSpec == Init /\ [][WriteNext]_vars

(***************************************************************************)
(* Properties                                                              *)
(***************************************************************************)
\* how often a path occurs in a list
Count(f, s) == Cardinality({i \in 1..Len(s) : s[i] = f})

\* the distinct files an aggregate holds
FilesOf(pd) == Range(get_all_files(pd))

SingletonTypes == {IOS_UPPER, IOS_LOWER, TELERADIOGRAPHY, ORTHOPANTOMOGRAPHY}

\* the occupant of the singleton slot of a type
SlotOf(pd, t) ==
  IF t = IOS_UPPER THEN pd.ios_upper
  ELSE IF t = IOS_LOWER THEN pd.ios_lower
  ELSE IF t = TELERADIOGRAPHY THEN pd.teleradiography
  ELSE pd.orthopantomography

SlotNames == {"cbct_files", "ios_upper", "ios_lower", "intraoral_photos",
              "teleradiography", "orthopantomography", "unmatched_files"}

\* the files held by a slot or list of the aggregate
Holds(pd, n) ==
  IF n = "cbct_files" THEN Range(pd.cbct_files)
  ELSE IF n = "ios_upper" THEN Range(Opt(pd.ios_upper))
  ELSE IF n = "ios_lower" THEN Range(Opt(pd.ios_lower))
  ELSE IF n = "intraoral_photos" THEN Range(pd.intraoral_photos)
  ELSE IF n = "teleradiography" THEN Range(Opt(pd.teleradiography))
  ELSE IF n = "orthopantomography" THEN Range(Opt(pd.orthopantomography))
  ELSE Range(pd.unmatched_files)

\* the step is a cached reload served from the cache
ReloadHit == AnalyzeWithCache /\ CacheLookup = "hit"

\* the step is a manual reassignment of f to t that returns True
ReassignOk(f, t) ==
  /\ n_reassign' = n_reassign + 1
  /\ Reassign(f, t)
  /\ update_patient_file_assignment(has_project, folder, p, fd, f, t).ok

\* C1: every file of the aggregate first produced by classification is, in
\* every later state, in exactly one slot or list of the aggregate.
C1_NoLoss ==
  has_project => \A f \in start_files : Count(f, get_all_files(p)) = 1

\* C2: a cached reload returns every file that was saved with status MANUAL
\* with the data type it was saved with and status MANUAL.
C2_ManualDurable ==
  [][ReloadHit =>
       \A i \in 1..Len(cache_data[1].matched_files) :
         LET m == cache_data[1].matched_files[i]
         IN (m.status = MANUAL /\ m.path \in folder) =>
              /\ m.path \in FilesOf(p')
              /\ fd'[m.path].data_type = m.data_type
              /\ fd'[m.path].status = MANUAL]_vars

\* C3: a successful reassignment of X to a singleton slot occupied by another
\* file Y leaves X in the slot and Y in unmatched_files, and the number of
\* files in the aggregate is unchanged: the same files are present, and the
\* list of get_all_files has the same length when no file was listed twice.
C3_Displacement ==
  [][\A t \in SingletonTypes :
       (ReassignOk(last'.path, t) /\ SlotOf(p, t) \notin {NoFile, last'.path})
       =>
         /\ SlotOf(p', t) = last'.path
         /\ SlotOf(p, t) \in Range(p'.unmatched_files)
         /\ Cardinality(FilesOf(p')) = Cardinality(FilesOf(p))
         /\ FilesOf(p') = FilesOf(p)
         /\ Count(last'.path, get_all_files(p)) = 1 =>
              Len(get_all_files(p')) = Len(get_all_files(p))]_vars

\* a reassignment displaced the occupant of a singleton slot
C3_Witness ==
  /\ last.op = "reassign" /\ last.ok /\ last.data_type \in SingletonTypes
  /\ SlotOf(p, last.data_type) = last.path
  /\ \E y \in Range(p.unmatched_files) :
       y # last.path /\ fd[y].data_type = last.data_type
       /\ fd[y].status = MATCHED

\* the aggregate in memory is the one the cache entry was saved from
SavedFromMemory ==
  /\ cache_data # <<>>
  /\ cache_data[1] = cache_matches(p, fd, cache_data[1].folder_hash,
                                   cache_data[1].timestamp)

\* C4: loading an aggregate that was just saved yields every file in the same
\* slot with the same data type, confidence and status, and the same
\* manually_complete.
C4_RoundTrip ==
  [][(ReloadHit /\ SavedFromMemory) =>
       /\ \A n \in SlotNames : Holds(p', n) = Holds(p, n)
       /\ \A f \in FilesOf(p) : fd'[f] = fd[f]
       /\ p'.manually_complete = p.manually_complete]_vars

\* C5: _apply_cached_matches puts every file of the fresh aggregate exactly
\* once into the result; a file of the cache's unmatched list ends in
\* unmatched_files, a file of neither cache list ends there as UNMATCHED
\* without a type.
C5_ThreeWay ==
  [][ReloadHit =>
       LET entry == cache_data[1]
           fresh == FreshAnalysis(folder, converter_ok, unreadable)
           matched == {entry.matched_files[i].path :
                         i \in 1..Len(entry.matched_files)}
       IN \A f \in FilesOf(fresh.p) :
            /\ Count(f, get_all_files(p')) = 1
            /\ f \in Range(entry.unmatched_files) =>
                 f \in Range(p'.unmatched_files)
            /\ (f \notin Range(entry.unmatched_files) /\ f \notin matched) =>
                 /\ f \in Range(p'.unmatched_files)
                 /\ fd'[f].status = UNMATCHED
                 /\ fd'[f].data_type = NoType]_vars

\* C6: after a fresh classification every non-ignored file of the folder is in
\* exactly one slot or list of the aggregate.
C6_ClassifyComplete ==
  [][AnalyzeNoCache =>
       \A f \in folder :
         ~_should_ignore_file(f) => Count(f, get_all_files(p')) = 1]_vars

\* the files named by a list of upload items
ItemFiles(items) == {items[i].file : i \in 1..Len(items)}

\* C7: no file whose data type is EXCLUDE is in the (file, modality) list of
\* _get_all_patient_files or in the multipart file set of _create_new_patient.
C7_ExcludeNotSynced ==
  \A f \in FilesOf(p) :
    fd[f].data_type = EXCLUDE =>
      /\ f \notin ItemFiles(_get_all_patient_files(p, fd))
      /\ f \notin ItemFiles(_create_new_patient(p, folder))

\* C8: a successful reassignment of X to EXCLUDE leaves X in every slot or
\* list it was in before.
C8_ExcludeKeepsLocation ==
  [][\A f \in Paths :
       ReassignOk(f, EXCLUDE) =>
         \A n \in SlotNames : f \in Holds(p, n) => f \in Holds(p', n)]_vars

\* C9: a cached reload restores a file cached with data type EXCLUDE with data
\* type EXCLUDE, outside unmatched_files.
C9_ExcludeRestored ==
  [][ReloadHit =>
       \A i \in 1..Len(cache_data[1].matched_files) :
         LET m == cache_data[1].matched_files[i]
         IN (m.data_type = EXCLUDE /\ m.path \in FilesOf(p')) =>
              /\ fd'[m.path].data_type = EXCLUDE
              /\ m.path \notin Range(p'.unmatched_files)]_vars

\* the sidecar holds an entry whose fingerprint is the current one and whose
\* age is below 30 days
ValidEntryExists ==
  /\ cache_file_exists
  /\ cache_data # <<>>
  /\ cache_data[1].folder_hash.mtime = dir_mtime
  /\ cache_data[1].folder_hash.files = folder
  /\ now - cache_data[1].timestamp < 30

C11_HitAfterSave ==
  [][(AnalyzeWithCache /\ last.op = "reload") => last'.ok]_vars

\* C12: a reader that opens a cache file while it is being written finds the
\* complete file of before the write or the complete new file.
C12_AtomicWrites ==
  reader_saw.store # "none" =>
    \/ reader_saw.content = reader_saw.before
    \/ reader_saw.content = Complete(reader_saw.before.version + 1)

\* the step is a classification of the existing folder that is not served
\* from the cache
FreshStep ==
  /\ folder_exists
  /\ AnalyzeNoCache \/ (AnalyzeWithCache /\ CacheLookup # "hit")

\* the main-folder files that classify as data type t, in walk order
Candidates(t) ==
  LET IsT(f) == _analyze_single_file(f).data_type = t
  IN SelectSeq(_get_files_in_folder(folder), IsT)

\* C13: of the main-folder files that classify as TELERADIOGRAPHY (or as
\* ORTHOPANTOMOGRAPHY) the first occupies the slot, every later one is in
\* unmatched_files with status AMBIGUOUS, and each is in the aggregate once.
C13_SingletonCollision ==
  [][FreshStep =>
       \A t \in {TELERADIOGRAPHY, ORTHOPANTOMOGRAPHY} :
         \A i \in 1..Len(Candidates(t)) :
           /\ Count(Candidates(t)[i], get_all_files(p')) = 1
           /\ IF i = 1 THEN SlotOf(p', t) = Candidates(t)[1]
              ELSE /\ Candidates(t)[i] \in Range(p'.unmatched_files)
                   /\ fd'[Candidates(t)[i]].status = AMBIGUOUS]_vars

\* a classification found two orthopantomography candidates
C13_Witness ==
  /\ has_project /\ n_reassign = 0
  /\ Len(Candidates(ORTHOPANTOMOGRAPHY)) >= 2
  /\ p.orthopantomography = Candidates(ORTHOPANTOMOGRAPHY)[1]
  /\ fd[Candidates(ORTHOPANTOMOGRAPHY)[2]].status = AMBIGUOUS

\* the STL files the IOS folder lists
StlFiles == SelectSeq(FilesAt(Readable(folder, unreadable), "ios"),
                      IsStlCandidate)

NoKeyword(f) == ~FileTable[f].upper /\ ~FileTable[f].lower

\* the two-file alphabetical fallback
TwoFileFallback ==
  Len(StlFiles) = 2 /\ NoKeyword(StlFiles[1]) /\ NoKeyword(StlFiles[2])

\* the first STL file whose name has an upper keyword; the first among the
\* others whose name has a lower keyword
FirstUpper ==
  LET IsUpper(f) == FileTable[f].upper
  IN Opt(IF SelectSeq(StlFiles, IsUpper) = <<>> THEN NoFile
         ELSE Head(SelectSeq(StlFiles, IsUpper)))
FirstLower ==
  LET IsLower(f) == ~FileTable[f].upper /\ FileTable[f].lower
  IN Opt(IF SelectSeq(StlFiles, IsLower) = <<>> THEN NoFile
         ELSE Head(SelectSeq(StlFiles, IsLower)))

\* C14: with two or more STL files, outside the fallback, the first upper
\* match is ios_upper and the first lower match is ios_lower at confidence
\* 0.8, and every other STL file is in unmatched_files.
C14_IosSeveral ==
  [][(FreshStep /\ Len(StlFiles) >= 2 /\ ~TwoFileFallback) =>
       /\ Opt(p'.ios_upper) = FirstUpper
       /\ Opt(p'.ios_lower) = FirstLower
       /\ \A f \in Range(FirstUpper) \cup Range(FirstLower) :
            fd'[f].confidence = 8
       /\ \A f \in Range(StlFiles) :
            f \notin Range(FirstUpper) \cup Range(FirstLower) =>
              f \in Range(p'.unmatched_files)]_vars

\* C15: exactly two STL files without keyword are assigned in alphabetical
\* order, IOS_UPPER then IOS_LOWER, at confidence 0.3; with more files or
\* with a keyword match no STL file without keyword gets an IOS slot.
C15_TwoFileFallback ==
  [][FreshStep =>
       IF TwoFileFallback
       THEN /\ p'.ios_upper = SortedSeq(Range(StlFiles))[1]
            /\ p'.ios_lower = SortedSeq(Range(StlFiles))[2]
            /\ fd'[p'.ios_upper] = FileData(IOS_UPPER, 3, MATCHED)
            /\ fd'[p'.ios_lower] = FileData(IOS_LOWER, 3, MATCHED)
       ELSE Len(StlFiles) >= 2 =>
              \A f \in Range(StlFiles) :
                NoKeyword(f) => /\ f \notin {p'.ios_upper, p'.ios_lower}
                                /\ fd'[f].confidence # 3]_vars

\* a classification applied the two-file fallback
C15_Witness ==
  /\ has_project /\ TwoFileFallback
  /\ p.ios_upper # NoFile /\ fd[p.ios_upper].confidence = 3
  /\ p.ios_lower # NoFile /\ fd[p.ios_lower].confidence = 3

\* C16: a file in a singleton slot has a data type and status MATCHED or
\* MANUAL.
C16_SlotsClassified ==
  \A t \in SingletonTypes :
    SlotOf(p, t) # NoFile =>
      /\ fd[SlotOf(p, t)].data_type # NoType
      /\ fd[SlotOf(p, t)].status \in {MATCHED, MANUAL}

\* the place update_patient_file_assignment gives a file of data type t
InPlaceFor(pd, f, t) ==
  IF t \in SingletonTypes THEN SlotOf(pd, t) = f
  ELSE IF t = CBCT_DICOM THEN f \in Range(pd.cbct_files)
  ELSE IF t = INTRAORAL_PHOTO THEN f \in Range(pd.intraoral_photos)
  ELSE f \in Range(get_all_files(pd))

\* C17: after a reassignment of X to B that returned True, X has data type
\* B, status MANUAL and confidence 1.0, is in the slot for B, and occurs
\* nowhere else in the aggregate.
C17_ReassignPost ==
  [][\A t \in DataType :
       ReassignOk(last'.path, t) =>
         /\ fd'[last'.path] = FileData(t, 10, MANUAL)
         /\ InPlaceFor(p', last'.path, t)
         /\ Count(last'.path, get_all_files(p')) = 1]_vars

\* the step is the call update_patient_file_assignment(patient_id, f, t)
ReassignCall(patient_id, f, t) ==
  /\ n_reassign' = n_reassign + 1
  /\ last'.path = f
  /\ ReassignFor(patient_id, f, t)

\* C18: update_patient_file_assignment returns False and leaves every slot
\* and every file's data type, status and confidence as they were when the
\* file is not on disk, the patient id is unknown, or the path is not a file
\* of the patient.
C18_FailedReassign ==
  [][\A patient_id \in PatientIds, t \in DataType :
       (/\ ReassignCall(patient_id, last'.path, t)
        /\ \/ last'.path \notin folder
           \/ patient_id # PatientId
           \/ last'.path \notin FilesOf(p))
       => /\ ~last'.ok
          /\ p' = p
          /\ fd' = fd]_vars

\* a reassignment of a file that the aggregate holds and that was deleted
\* from disk has returned False
C18_Witness ==
  /\ last.op = "reassign" /\ ~last.ok
  /\ last.path \in FilesOf(p)
  /\ last.path \notin folder

\* the step is a call analyze_patient_folder(folder_path, use_cache) for a
\* folder that does not exist
AnalyzeMissingFolder ==
  /\ ~folder_exists
  /\ AnalyzeNoCache \/ AnalyzeWithCache

\* C19: classifying a folder that does not exist returns an aggregate with
\* every slot and list empty and one validation error that names the folder,
\* and writes no cache entry.
C19_MissingFolder ==
  [][AnalyzeMissingFolder =>
       /\ get_all_files(p') = <<>>
       /\ p'.validation_errors = <<FolderDoesNotExist>>
       /\ cache_file_exists' = cache_file_exists
       /\ cache_data' = cache_data
       /\ dir_mtime' = dir_mtime]_vars

\* a folder that does not exist has been classified
C19_Witness ==
  /\ ~folder_exists
  /\ has_project
  /\ p.validation_errors = <<FolderDoesNotExist>>

\* C20: after a classification during which a subfolder could not be read,
\* validation_errors holds a message.
C20_StructuralErrors ==
  [][(FreshStep /\ unreadable # {}) => p'.validation_errors # <<>>]_vars

\* C21: a cached analysis of a folder whose sidecar is unreadable, is not
\* JSON or holds an entry that does not fit CacheEntry raises nothing and
\* returns the fresh classification; an entry of an older version is loaded.
C21_CorruptionIsMiss ==
  [][(AnalyzeWithCache /\ cache_file_exists /\ sidecar_form # "current") =>
       /\ last'.lookup # "raised"
       /\ sidecar_form # "older" =>
            /\ ~last'.ok
            /\ p' = analyze_patient_folder(folder_exists, folder,
                                            converter_ok, unreadable).p]_vars

\* the step is a cached reload served from an entry with an invalid data type
ReloadInvalidType ==
  /\ AnalyzeWithCache
  /\ last'.lookup = "hit"
  /\ HasInvalidType(cache_data[1])

\* the file of a matched entry m is back with the cached type and status, in
\* the place of that type, and not in unmatched_files unless excluded
RestoredAsCached(m) ==
  /\ fd'[m.path].data_type = m.data_type
  /\ fd'[m.path].status = m.status
  /\ InPlaceFor(p', m.path, m.data_type)
  /\ m.data_type # EXCLUDE => m.path \notin Range(p'.unmatched_files)

\* C22: on a reload from an entry in which one file has an invalid data
\* type, that file is in unmatched_files, every other matched file of the
\* entry is restored with its cached slot, type and status, and the entry
\* stays in the cache.
C22_InvalidTypeIsolated ==
  [][ReloadInvalidType =>
       /\ \A i \in 1..Len(cache_data[1].matched_files) :
            cache_data[1].matched_files[i].path \in FilesOf(p') =>
              IF cache_data[1].matched_files[i].data_type = InvalidType
              THEN cache_data[1].matched_files[i].path
                     \in Range(p'.unmatched_files)
              ELSE RestoredAsCached(cache_data[1].matched_files[i])
       /\ cache_data' = cache_data
       /\ cache_file_exists']_vars

C24_FingerprintDeterministic ==
  change = "relist" => hash_now = hash_prev

\* the slots and lists of an aggregate
SlotsOf(pd) ==
  [cbct_files |-> pd.cbct_files, ios_upper |-> pd.ios_upper,
   ios_lower |-> pd.ios_lower, intraoral_photos |-> pd.intraoral_photos,
   teleradiography |-> pd.teleradiography,
   orthopantomography |-> pd.orthopantomography,
   unmatched_files |-> pd.unmatched_files]

C26_ScreenPhotoSuppressed ==
  (/\ image_result # <<>>
   /\ image.ext \in ImageExtensions
   /\ image.opens
   /\ image.mode = "RGB"
   /\ image.hist_diff < 20
   /\ ~image.tele
   /\ ~image.ortho)
  => image_result.data_type \notin {INTRAORAL_PHOTO, "facial_photo"}

\* the name starts with '.', or is thumbs.db or desktop.ini in any case
SystemIgnored(f) ==
  \/ Basenames[f].dot
  \/ Basenames[f].lower \in {"thumbs.db", "desktop.ini"}

\* the step returns the aggregate of a classification or of a cached reload
AnalysisReturns ==
  /\ AnalyzeNoCache \/ AnalyzeWithCache
  /\ last'.lookup # "raised"

\* C27: the aggregate a classification or a cached reload returns holds no
\* file whose name starts with '.' or is thumbs.db or desktop.ini, whether
\* the file is in the main folder, the CBCT folder or the IOS folder.
C27_IgnoredNeverEnter ==
  [][AnalysisReturns => \A f \in FilesOf(p') : ~SystemIgnored(f)]_vars

\* a cached reload of a folder whose IOS subfolder holds a file that is left
\* out beside the files that are restored
C27_Witness ==
  /\ last.op = "reload"
  /\ last.ok
  /\ \E f \in folder : SystemIgnored(f) /\ FileTable[f].loc = "ios"
  /\ p.ios_upper # NoFile

\* C28: _find_patient_folders returns no directory whose name is tmp in any
\* case, and _get_files_in_folder returns no file that lies below a
\* directory named tmp, in any case, at any depth of the folder it scans.
C28_TmpExcluded ==
  [][/\ FindPatientFolders =>
          \A i \in 1..Len(found_folders') : ~(Lower(Last(found_folders'[i])) = "tmp")
     /\ GetFilesInFolder =>
          \A f \in found_files' :
             \A i \in (Len(scanned') + 1)..(Len(f) - 1) : Lower(f[i]) # "tmp"]_vars

\* a listing of the root that returns a file and leaves out the file below
\* the directory TMP
C28_Witness ==
  /\ scanned = <<>>
  /\ found_files # {}
  /\ \E e \in scan_tree :
        /\ ~e.dir
        /\ Len(e.path) = 2
        /\ e.path[1] = "TMP"
        /\ ~IgnoredName(Last(e.path))
        /\ e.path \notin found_files

\* C29: after invalidate_cache the folder has no sidecar, so that
\* has_cached_data is False and get_cached_matches returns None until the
\* next cache_matches; invalidating a folder without a sidecar changes
\* nothing.
C29_Invalidated ==
  [][/\ InvalidateCache =>
          /\ ~cache_file_exists'
          /\ ~cache_file_exists =>
               UNCHANGED <<cache_data, sidecar_form, dir_mtime, p, fd>>
     /\ (last.op = "invalidate" /\ HasCachedData) => ~last'.ok
     /\ (last.op = "invalidate" /\ AnalyzeWithCache) => ~last'.ok]_vars

\* C30: login() and test_connection() return success only when the server
\* accepted the credentials that were sent; when the server rejects them
\* they return failure and is_authenticated stays False; set_credentials and
\* set_base_url leave is_authenticated False.
C30_WrongCredentialsRejected ==
  [][/\ (api_last'.op \in {"login", "test_connection"}
         /\ api_last'.posted /\ ~api_last'.accepted) =>
          /\ ~api_last'.ok
          /\ ~is_authenticated => ~is_authenticated'
     /\ (api_last'.op = "login" /\ api_last'.ok) => api_last'.accepted
     /\ (api_last'.op = "login" /\ ~is_authenticated /\ is_authenticated') =>
          api_last'.accepted
     /\ api_last'.op \in {"set_credentials", "set_base_url"} =>
          ~is_authenticated']_vars

\* ---------------------------------------------------------------------
\* The upload of one patient: TF4MApiClient.upload_patient_data
\* ---------------------------------------------------------------------

\* the file hashes of the model
FileHashes == {"h1", "h2"}

\* one request of a call and whether the server answered it with success
Req(request, ok) == [request |-> request, ok |-> ok]

\* the outcome of a call: the requests it issued, what it returned and the
\* patient the server holds afterwards
Outcome(reqs, ok, message, exists, rfiles) ==
  [requests |-> reqs, ok |-> ok, message |-> message,
   remote_exists |-> exists, remote_files |-> rfiles]

\* find_patient_by_name: the patient is found when the list of patients
\* arrives and holds the name; a failed list reports no patient
find_patient_by_name(exists, list_ok) == list_ok /\ exists

\* _compare_and_filter_files: the local files whose hash the server lacks
_compare_and_filter_files(lfiles, existing_files) == lfiles \ existing_files

\* the creation of the patient and the upload of all files, the tail of
\* upload_patient_data
CreateAndUpload(reqs, patient_exists, exists, rfiles, lfiles, create_ok, upload_ok) ==
  IF ~create_ok
  THEN Outcome(Append(reqs, Req("create", FALSE)), FALSE,
               "Failed to create patient", exists, rfiles)
  ELSE IF upload_ok
  THEN Outcome(reqs \o <<Req("create", TRUE), Req("upload", TRUE)>>, TRUE,
               IF patient_exists THEN "Reuploaded patient"
               ELSE "Created new patient", TRUE, rfiles \cup lfiles)
  ELSE Outcome(reqs \o <<Req("create", TRUE), Req("upload", FALSE)>>, FALSE,
               "Failed to upload files", TRUE, rfiles)

\* upload_patient_data
upload_patient_data(exists, rfiles, lfiles, delete_before_reupload, login_ok, list_ok, files_ok, delete_ok, create_ok, upload_ok) ==
  IF ~login_ok
  THEN Outcome(<<>>, FALSE, "Authentication failed", exists, rfiles)
  ELSE IF find_patient_by_name(exists, list_ok)
  THEN IF ~files_ok
       THEN Outcome(<<Req("patients", TRUE), Req("files", FALSE)>>, FALSE,
                    "Failed to get existing files", exists, rfiles)
       ELSE IF _compare_and_filter_files(lfiles, rfiles) = {}
       THEN Outcome(<<Req("patients", TRUE), Req("files", TRUE)>>, TRUE,
                    "already has all files up to date", exists, rfiles)
       ELSE IF ~delete_before_reupload
       THEN Outcome(<<Req("patients", TRUE), Req("files", TRUE)>>, TRUE,
                    "already exists (skipped due to settings)", exists,
                    rfiles)
       ELSE IF ~delete_ok
       THEN Outcome(<<Req("patients", TRUE), Req("files", TRUE),
                      Req("delete", FALSE)>>, FALSE,
                    "Failed to delete existing patient before reupload",
                    exists, rfiles)
       ELSE CreateAndUpload(<<Req("patients", TRUE), Req("files", TRUE),
                              Req("delete", TRUE)>>, TRUE, FALSE, {}, lfiles,
                            create_ok, upload_ok)
  ELSE CreateAndUpload(<<Req("patients", list_ok)>>, FALSE, exists, rfiles,
                       lfiles, create_ok, upload_ok)

\* the server holds the patient or not, with some of the files
InitUpload ==
  /\ folder = {}
  /\ folder_exists = TRUE
  /\ unreadable = {}
  /\ reassign_limit = 0
  /\ remove_fails = FALSE
  /\ Constructed
  /\ HashIdle
  /\ ImageIdle
  /\ ListIdle
  /\ ApiIdle
  /\ remote_exists \in BOOLEAN
  /\ remote_files \in (IF remote_exists THEN SUBSET FileHashes ELSE {{}})
  /\ local_files \in SUBSET FileHashes
  /\ requests = <<>>
  /\ upload_result = NoUpload
  /\ WorkerIdle
  /\ ProjectIdle

\* one call of upload_patient_data
UploadPatientData ==
  \E delete_before_reupload, login_ok, list_ok, files_ok, delete_ok,
     create_ok, upload_ok \in BOOLEAN :
    \E r \in {upload_patient_data(remote_exists, remote_files, local_files,
                                  delete_before_reupload, login_ok, list_ok,
                                  files_ok, delete_ok, create_ok, upload_ok)} :
      /\ requests' = r.requests
      /\ upload_result' =
           [ok |-> r.ok, message |-> r.message,
            delete_before_reupload |-> delete_before_reupload]
      /\ remote_exists' = r.remote_exists
      /\ remote_files' = r.remote_files
      /\ UNCHANGED <<folderVars, writeVars, stateVars, hashVars, imgVars,
                     listVars, apiVars, workerVars, projVars, local_files>>

UploadNext == UploadPatientData

UploadSpec == InitUpload /\ [][UploadNext]_vars

\* the position of the first request of a kind in a sequence of requests,
\* 0 when there is none
RECURSIVE FirstReq(_, _, _)
FirstReq(reqs, kind, i) ==
  IF i > Len(reqs) THEN 0
  ELSE IF reqs[i].request = kind THEN i
  ELSE FirstReq(reqs, kind, i + 1)

\* C33: a call for a patient the server holds, with some local file the
\* server lacks, issues neither a delete nor a create request and reports
\* the patient as skipped when delete_before_reupload is off; when it is on,
\* a create request follows a delete request, and none follows a failed
\* delete.
C33_ReuploadOrdering ==
  [][UploadPatientData /\ remote_exists /\ local_files \ remote_files # {}
     => IF upload_result'.delete_before_reupload
        THEN FirstReq(requests', "create", 1) # 0
             => /\ FirstReq(requests', "delete", 1) # 0
                /\ FirstReq(requests', "delete", 1)
                     < FirstReq(requests', "create", 1)
                /\ requests'[FirstReq(requests', "delete", 1)].ok
        ELSE /\ FirstReq(requests', "create", 1) = 0
             /\ FirstReq(requests', "delete", 1) = 0
             /\ upload_result'.message
                  = "already exists (skipped due to settings)"]_vars

\* ---------------------------------------------------------------------
\* The upload manager: the queue, the worker threads and the upload status
\* kept in the cache entries (gui/upload_manager.py)
\* ---------------------------------------------------------------------

\* calls of start_bulk_upload in a session
MaxBulk == 2

\* the lists of patients the upload dialog returns: all patients of the
\* project or the complete ones, in the order of the project, and never none
Selections == {<<"patient_a">>, <<"patient_b">>, <<"patient_a", "patient_b">>}

\* MatchCache.update_upload_status on the cache entries of all patients: the
\* entry of the folder takes the status when the sidecar holds one
update_upload_status(cs, a, status) ==
  IF cs[a] # "none" THEN [cs EXCEPT ![a] = status] ELSE cs

\* the variables of the other parts
WorkerFrame == UNCHANGED <<folderVars, writeVars, stateVars, hashVars,
                           imgVars, listVars, apiVars, upVars, projVars>>

InitWorker ==
  /\ folder = {}
  /\ folder_exists = TRUE
  /\ unreadable = {}
  /\ reassign_limit = 0
  /\ remove_fails = FALSE
  /\ Constructed
  /\ HashIdle
  /\ ImageIdle
  /\ ListIdle
  /\ ApiIdle
  /\ UploadIdle
  /\ ProjectIdle
  /\ upload_queue = <<>>
  /\ start_btn = "disabled"
  /\ current_upload = NoPatient
  /\ upload_stats = NoStats
  /\ worker = [w \in Workers |-> IdleWorker]
  /\ cached_status \in [Patients -> {"none", "not_uploaded"}]
  /\ n_bulk = 0
  /\ n_pending = [a \in Patients |-> 0]

\* UploadManager.start_bulk_upload(patients)
StartBulkUpload ==
  /\ n_bulk < MaxBulk
  /\ n_bulk' = n_bulk + 1
  /\ \E selected_patients \in Selections :
        /\ upload_queue' = selected_patients
        /\ upload_stats' = [total |-> Len(selected_patients), completed |-> 0,
                            failed |-> 0]
        /\ n_pending' = [a \in Patients |->
                           IF \E i \in 1..Len(selected_patients) : selected_patients[i] = a
                           THEN n_pending[a] + 1 ELSE n_pending[a]]
  /\ start_btn' = "normal"
  /\ UNCHANGED <<current_upload, worker, cached_status>>
  /\ WorkerFrame

\* UploadManager.start_upload: the click on the enabled start button
StartUpload ==
  /\ start_btn = "normal"
  /\ upload_queue # <<>>
  /\ \E w \in Workers : worker[w].pc = "idle"
  /\ \E w \in {CHOOSE t \in Workers : worker[t].pc = "idle"} :
        worker' = [worker EXCEPT ![w] = [IdleWorker EXCEPT !.pc = "loop"]]
  /\ start_btn' = "disabled"
  /\ UNCHANGED <<upload_queue, current_upload, upload_stats, cached_status,
                 n_bulk, n_pending>>
  /\ WorkerFrame

\* UploadManager.stop_upload
StopUpload ==
  /\ upload_queue # <<>>
  /\ upload_queue' = <<>>
  /\ UNCHANGED <<start_btn, current_upload, upload_stats, worker,
                 cached_status, n_bulk, n_pending>>
  /\ WorkerFrame

\* upload_worker: the test of the while loop
LoopTest(w) ==
  /\ worker[w].pc = "loop"
  /\ worker' = [worker EXCEPT ![w].pc =
                  IF upload_queue # <<>> THEN "pop" ELSE "finished"]
  /\ UNCHANGED <<upload_queue, start_btn, current_upload, upload_stats,
                 cached_status, n_bulk, n_pending>>
  /\ WorkerFrame

\* upload_worker: patient = self.upload_queue.pop(0); on a queue emptied since
\* the test, pop raises IndexError and the thread ends
Pop(w) ==
  /\ worker[w].pc = "pop"
  /\ IF upload_queue = <<>>
     THEN /\ worker' = [worker EXCEPT ![w] = IdleWorker]
          /\ UNCHANGED <<upload_queue, current_upload>>
     ELSE /\ worker' = [worker EXCEPT ![w] =
                          [pc |-> "mark", patient |-> Head(upload_queue),
                           success |-> FALSE, marked |-> FALSE]]
          /\ upload_queue' = Tail(upload_queue)
          /\ current_upload' = Head(upload_queue)
  /\ UNCHANGED <<start_btn, upload_stats, cached_status, n_bulk, n_pending>>
  /\ WorkerFrame

\* upload_worker: self.cache.update_upload_status(folder_path, "uploading")
MarkUploading(w) ==
  /\ worker[w].pc = "mark"
  /\ cached_status' = update_upload_status(cached_status, worker[w].patient,
                                           "uploading")
  /\ worker' = [worker EXCEPT ![w].pc = "upload", ![w].marked = TRUE]
  /\ UNCHANGED <<upload_queue, start_btn, current_upload, upload_stats,
                 n_bulk, n_pending>>
  /\ WorkerFrame

\* upload_worker: the call of api_client.upload_patient_data, which returns
\* success, returns failure or raises
UploadCall(w) ==
  /\ worker[w].pc = "upload"
  /\ \E outcome \in {"success", "failure", "raised"} :
        worker' = [worker EXCEPT ![w].pc = "completion",
                                 ![w].success = (outcome = "success")]
  /\ n_pending' = [n_pending EXCEPT ![worker[w].patient] = @ - 1]
  /\ UNCHANGED <<upload_queue, start_btn, current_upload, upload_stats,
                 cached_status, n_bulk>>
  /\ WorkerFrame

\* a completion that records the status of a successful upload only
CompletionOnSuccess(w) ==
  /\ worker[w].pc = "completion"
  /\ upload_stats' =
       IF worker[w].success
       THEN [upload_stats EXCEPT !.completed = @ + 1]
       ELSE [upload_stats EXCEPT !.failed = @ + 1]
  /\ cached_status' =
       IF worker[w].success
       THEN update_upload_status(cached_status, worker[w].patient, "uploaded")
       ELSE cached_status
  /\ worker' = [worker EXCEPT ![w].pc = "loop"]
  /\ UNCHANGED <<upload_queue, start_btn, current_upload, n_bulk, n_pending>>
  /\ WorkerFrame

\* upload_worker: completion_callback(success, message)
Completion(w) ==
  /\ worker[w].pc = "completion"
  /\ upload_stats' =
       IF worker[w].success
       THEN [upload_stats EXCEPT !.completed = @ + 1]
       ELSE [upload_stats EXCEPT !.failed = @ + 1]
  /\ cached_status' =
       update_upload_status(cached_status, worker[w].patient,
                            IF worker[w].success THEN "uploaded"
                            ELSE "failed")
  /\ worker' = [worker EXCEPT ![w].pc = "loop"]
  /\ UNCHANGED <<upload_queue, start_btn, current_upload, n_bulk, n_pending>>
  /\ WorkerFrame

\* UploadManager.upload_complete, which the thread schedules when its loop
\* ends
UploadComplete(w) ==
  /\ worker[w].pc = "finished"
  /\ worker' = [worker EXCEPT ![w] = IdleWorker]
  /\ current_upload' = NoPatient
  /\ start_btn' = "disabled"
  /\ UNCHANGED <<upload_queue, upload_stats, cached_status, n_bulk, n_pending>>
  /\ WorkerFrame

\* the cache entry of a patient is written anew by cache_matches, with the
\* default upload_status, while the upload manager is at work
CacheMatchesOf(a) ==
  /\ cached_status[a] # "not_uploaded"
  /\ cached_status' = [cached_status EXCEPT ![a] = "not_uploaded"]
  /\ UNCHANGED <<upload_queue, start_btn, current_upload, upload_stats,
                 worker, n_bulk, n_pending>>
  /\ WorkerFrame

WorkerNext ==
  \/ StartBulkUpload
  \/ StartUpload
  \/ StopUpload
  \/ \E w \in Workers : LoopTest(w)
  \/ \E w \in Workers : Pop(w)
  \/ \E w \in Workers : MarkUploading(w)
  \/ \E w \in Workers : UploadCall(w)
  \/ \E w \in Workers : Completion(w)
  \/ \E w \in Workers : UploadComplete(w)
  \/ \E a \in Patients : CacheMatchesOf(a)

WorkerSpec == InitWorker /\ [][WorkerNext]_vars

\* ---------------------------------------------------------------------
\* The upload status kept in the cache entry of the folder
\* (core/match_cache.py update_upload_status, get_upload_status)
\* ---------------------------------------------------------------------

\* the arguments of update_upload_status
UploadStatuses == {"uploading", "uploaded", "failed"}
RemoteIds == {"None", "id_7"}
ErrorMessages == {"", "HTTP 500"}
HashUpdates == {{}, {"h1"}}

\* the entry after update_upload_status: an argument that is None or empty
\* leaves its field as it is
WithUploadStatus(entry, status, remote_patient_id, error_message, uploaded_file_hashes, t) ==
  [entry EXCEPT
     !.upload_status = status,
     !.last_upload_attempt = t,
     !.remote_patient_id =
        IF remote_patient_id # "None" THEN remote_patient_id ELSE @,
     !.upload_error_message =
        IF error_message # "" THEN error_message ELSE @,
     !.uploaded_file_hashes = @ \cup uploaded_file_hashes]

\* MatchCache.get_upload_status(folder_path), None given as the empty tuple
get_upload_status(data) ==
  IF data = <<>> THEN <<>>
  ELSE <<[status |-> data[1].upload_status,
          remote_patient_id |-> data[1].remote_patient_id,
          last_upload_attempt |-> data[1].last_upload_attempt,
          error_message |-> data[1].upload_error_message,
          uploaded_file_hashes |-> data[1].uploaded_file_hashes]>>

\* MatchCache.update_upload_status(folder_path, status, ...)
UpdateUploadStatus ==
  IF LoadRaises THEN Raised("update_upload_status") ELSE
  \E status \in UploadStatuses, remote_patient_id \in RemoteIds,
     error_message \in ErrorMessages, uploaded_file_hashes \in HashUpdates :
     /\ IF load_patient_cache # <<>>
        THEN save_patient_cache(
               <<WithUploadStatus(load_patient_cache[1], status,
                                  remote_patient_id, error_message,
                                  uploaded_file_hashes, now)>>)
        ELSE UNCHANGED <<cache_file_exists, cache_data, sidecar_form,
                         dir_mtime>>
     /\ last' = Op("update_upload_status", NoFile, NoType,
                   load_patient_cache # <<>>, "")
     /\ UNCHANGED <<envVars, writeVars, has_project, p, fd, start_files,
                    now, n_reassign>>

\* small folders: a scan, a photo with a document, a CBCT folder
InitStatus ==
  /\ folder \in {{8}, {3, 4}, {6, 7}}
  /\ folder_exists = TRUE
  /\ unreadable = {}
  /\ reassign_limit = 1
  /\ remove_fails = FALSE
  /\ Constructed
  /\ AuxIdle

StatusNext ==
  \/ AnalyzeNoCache
  \/ AnalyzeWithCache
  \/ ReassignAny
  \/ UpdateCache
  \/ UpdateUploadStatus
  \/ Tick

StatusSpec == InitStatus /\ [][StatusNext]_vars

\* ---------------------------------------------------------------------
\* Sessions with up to three reassignments
\* ---------------------------------------------------------------------
InitTwice ==
  /\ folder \in {{3, 4}, {8}}
  /\ folder_exists = TRUE
  /\ unreadable = {}
  /\ reassign_limit = MaxReassign + 2
  /\ remove_fails = FALSE
  /\ Constructed
  /\ AuxIdle

TwiceNext ==
  \/ AnalyzeNoCache
  \/ AnalyzeWithCache
  \/ ReassignAny
  \/ UpdateCache

TwiceSpec == InitTwice /\ [][TwiceNext]_vars

\* ---------------------------------------------------------------------
\* The analysis of a project (core/project_manager.py analyze_project)
\* ---------------------------------------------------------------------

\* what the progress callback does when it is called: there is none, it
\* returns, or it raises
Callbacks == {"none", "returns", "raises"}

\* a message of global_errors
ErrorOf(kind, folder_path) == [kind |-> kind, folder |-> folder_path]

\* the project data and whether an exception left analyze_project
Project(ps, errs, raised) ==
  [patients |-> ps, global_errors |-> errs, raised |-> raised]

RECURSIVE AnalyzeFolders(_, _, _, _, _)
\* the loop of analyze_project over patient_folders from position i on:
\* analyze_patient_folder raises for the folders of raising
AnalyzeFolders(patient_folders, i, raising, callback, acc) ==
  IF i > Len(patient_folders) THEN acc
  ELSE IF patient_folders[i] \notin raising /\ callback # "raises"
  THEN AnalyzeFolders(patient_folders, i + 1, raising, callback,
         Project(Append(acc.patients, patient_folders[i]),
                 acc.global_errors, FALSE))
  ELSE IF patient_folders[i] \notin raising
  \* the callback raises inside the try block, after the append, and again
  \* inside the except block, after the message was appended
  THEN Project(Append(acc.patients, patient_folders[i]),
               Append(acc.global_errors,
                      ErrorOf("folder", patient_folders[i])), TRUE)
  ELSE IF callback # "raises"
  THEN AnalyzeFolders(patient_folders, i + 1, raising, callback,
         Project(acc.patients,
                 Append(acc.global_errors,
                        ErrorOf("folder", patient_folders[i])), FALSE))
  ELSE Project(acc.patients,
               Append(acc.global_errors,
                      ErrorOf("folder", patient_folders[i])), TRUE)

\* ProjectManager.analyze_project(root_path, progress_callback): listing is
\* "denied" when os.listdir of the root raises PermissionError
analyze_project(t, root_exists, listing, raising, callback) ==
  IF ~root_exists
  THEN Project(<<>>, <<ErrorOf("root_missing", <<>>)>>, FALSE)
  ELSE IF listing = "denied" \/ _find_patient_folders(t, <<>>) = <<>>
  THEN Project(<<>>, <<ErrorOf("no_folders", <<>>)>>, FALSE)
  ELSE AnalyzeFolders(_find_patient_folders(t, <<>>), 1, raising, callback,
                      Project(<<>>, <<>>, FALSE))

\* one call of analyze_project on the tree
AnalyzeProject ==
  \E root_exists \in BOOLEAN, listing \in {"ok", "denied"},
     callback \in Callbacks,
     raising \in SUBSET Range(_find_patient_folders(scan_tree, <<>>)) :
    \E r \in {analyze_project(scan_tree, root_exists, listing, raising,
                              callback)} :
      /\ patients' = r.patients
      /\ global_errors' = r.global_errors
      /\ project_call' = [root_exists |-> root_exists, listing |-> listing,
                          raising |-> raising, callback |-> callback,
                          raised |-> r.raised, done |-> TRUE]
      /\ UNCHANGED <<folderVars, writeVars, stateVars, hashVars, imgVars,
                     listVars, apiVars, upVars, workerVars>>

ProjectNext ==
  \/ CreateEntry
  \/ AnalyzeProject

ProjectSpec == InitList /\ [][ProjectNext]_vars

\* C31: every file in unmatched_files has status UNMATCHED or AMBIGUOUS,
\* in every state reached by classification, manual reassignment and cached
\* reload.
C31_UnmatchedUnclassified ==
  \A i \in 1..Len(p.unmatched_files) :
     fd[p.unmatched_files[i]].status \in {UNMATCHED, AMBIGUOUS}

\* C32: bulk assignment of all unmatched files to one type and smart
\* auto-mapping leave the set of files of the aggregate unchanged.
C32_MappingKeepsFiles ==
  [][(RunBulkAssignment \/ RunSmartAutoMap) => FilesOf(p') = FilesOf(p)]_vars

\* the sidecar of the patient holds a cache entry
HasEntry(a) == cached_status[a] # "none"

C35_SaveKeepsUploadStatus ==
  [][(UpdateCache /\ ~LoadRaises /\ load_patient_cache # <<>>)
     => get_upload_status(cache_data') = get_upload_status(load_patient_cache)]_vars

\* C36: in the entry cache_matches writes, no path is a key of matched_files
\* and also listed in unmatched_files, and no two matched paths have the same
\* singleton data type.
C36_EntryListsDisjoint ==
  (cache_file_exists /\ cache_data # <<>>) =>
    /\ \A i \in 1..Len(cache_data[1].matched_files) :
         \A j \in 1..Len(cache_data[1].unmatched_files) :
            cache_data[1].matched_files[i].path
              # cache_data[1].unmatched_files[j]
    /\ \A i, j \in 1..Len(cache_data[1].matched_files) :
         (/\ i # j
          /\ cache_data[1].matched_files[i].data_type
               = cache_data[1].matched_files[j].data_type)
         => cache_data[1].matched_files[i].data_type
              \in {CBCT_DICOM, INTRAORAL_PHOTO}

\* the aggregate saved with cache_matches and read back with
\* _deserialize_patient_data, as [p, fd]
SaveReload(pd, fdd) ==
  _deserialize_patient_data(
    cache_matches(pd, fdd, get_folder_hash(folder, dir_mtime), now),
    folder, converter_ok, unreadable)

\* two aggregates agree in slots, types, confidences and statuses
SameAggregate(a, b) ==
  /\ a.p = b.p
  /\ \A f \in folder : a.fd[f] = b.fd[f]

\* C37: the aggregate obtained by saving and reloading is a fixed point of
\* saving and reloading.
C37_SaveReloadStable ==
  has_project =>
    SameAggregate(SaveReload(SaveReload(p, fd).p, SaveReload(p, fd).fd),
                  SaveReload(p, fd))

\* two sequences hold the same files as often, in any order
SameItems(a, b) ==
  \A f \in Range(a) \cup Range(b) : Count(f, a) = Count(f, b)

\* two aggregates are equal up to the order inside the list slots
SameUpToOrder(a, b) ==
  /\ SameItems(a.cbct_files, b.cbct_files)
  /\ SameItems(a.intraoral_photos, b.intraoral_photos)
  /\ SameItems(a.unmatched_files, b.unmatched_files)
  /\ [a EXCEPT !.cbct_files = <<>>, !.intraoral_photos = <<>>,
               !.unmatched_files = <<>>]
     = [b EXCEPT !.cbct_files = <<>>, !.intraoral_photos = <<>>,
                 !.unmatched_files = <<>>]

\* C38: update_patient_file_assignment called a second time in a row with
\* the same file and data type leaves the aggregate as the first call left
\* it, up to the order inside the list slots, and moves no other file.
C38_ReassignIdempotent ==
  [][(/\ last.op = "reassign" /\ last.ok
      /\ last'.op = "reassign" /\ last'.ok
      /\ last'.path = last.path /\ last'.data_type = last.data_type)
     => SameUpToOrder(p', p) /\ fd' = fd]_vars

\* the sidecar of the folder: whether it exists, its entry and its form
Persisted == <<cache_file_exists, cache_data, sidecar_form>>

\* C39: the analysis without the cache leaves the sidecar of the folder as it
\* is, and a reload that hits the cache returns the cached matches applied to
\* an analysis made without the cache, leaving the sidecar as it is too.
C39_NoCacheAnalysisLeavesCache ==
  [][/\ (last'.op = "analyze" /\ AnalyzeNoCache) => Persisted' = Persisted
     /\ (last'.op = "reload" /\ last'.lookup = "hit" /\ AnalyzeWithCache)
          => /\ Persisted' = Persisted
             /\ p' = _run_post_processing(
                        _apply_cached_matches(
                          analyze_patient_folder(TRUE, folder, converter_ok,
                                                 unreadable),
                          cache_data[1]).p, converter_ok)]_vars

\* an analysis without the cache has run on a folder whose sidecar holds an
\* entry with a recorded upload
C39_Witness ==
  /\ last.op = "analyze"
  /\ cache_file_exists
  /\ cache_data # <<>>
  /\ cache_data[1].upload_status = "uploaded"
  /\ FilesOf(p) # {}

\* the folders analyze_project is to report on: the subfolders of the root
\* that are not named tmp, sorted
ExpectedFolders == _find_patient_folders(scan_tree, <<>>)

\* the folders of the messages of global_errors, in their order
RECURSIVE ErrorFolders(_)
ErrorFolders(errs) ==
  IF errs = <<>> THEN <<>>
  ELSE (IF Head(errs).kind = "folder" THEN <<Head(errs).folder>> ELSE <<>>)
       \o ErrorFolders(Tail(errs))

\* s lists, in the order of the sequence all, the members of all that S holds
InOrder(s, all, S) == s = SelectSeq(all, LAMBDA f : f \in S)

\* C40: analyze_project on an existing root leaves exactly one outcome, a
\* patient or an error message, for every subfolder that is not named tmp,
\* both lists follow the sorted order, and no exception leaves the call.
C40_OneOutcomePerFolder ==
  [][(AnalyzeProject /\ project_call'.root_exists) =>
       /\ ~project_call'.raised
       /\ \A f \in Range(ExpectedFolders) :
            Count(f, patients') + Count(f, ErrorFolders(global_errors')) = 1
       /\ InOrder(patients', ExpectedFolders, Range(patients'))
       /\ InOrder(ErrorFolders(global_errors'), ExpectedFolders,
                  Range(ErrorFolders(global_errors')))]_vars

====
